---- MODULE Spec2Model ----
(***************************************************************************)
(* Artifact execution, caching and KPI derivation engine:                  *)
(*   safety.py        the SELECT-only gate                                 *)
(*   executor.py      execute_and_cache_artifacts, run_sql_select          *)
(*   memory_store.py  MemoryStore.cache_df / load_cached_df                *)
(*   kpi_engine.py    compute_kpis_from_plan                               *)
(*   db.py            run_sql                                              *)
(* Texts (SQL) are sequences of one-character strings, so that strip,      *)
(* the regular expressions and their word boundaries act on characters.    *)
(***************************************************************************)
EXTENDS Integers, Sequences, FiniteSets, TLC

VARIABLES
    gsql,               \* safety.py: the text handed to enforce_select_only
    gout,               \* safety.py: "none" | "accept" | "raise" (ValueError)
    pc,                 \* executor.py: position in execute_and_cache_artifacts
    artifacts,          \* executor.py: the artifacts argument
    pos,                \* executor.py: index of the artifact of the for loop
    cur_df,             \* executor.py: df of the loop body, None or Some(frame)
    dataset_summaries,  \* executor.py: List[DatasetSummary]
    reports,            \* executor.py: List[KPIReport]
    previews,           \* executor.py: Dict dataset_name -> preview frame
    full_datasets,      \* executor.py: Dict dataset_name -> frame
    analysis_plan,      \* executor.py: the analysis_plan argument, once read
    result,             \* executor.py: what the call returned or raised
    ui,                 \* app.py: st.session_state.execution_bundle, st.error
    files,              \* memory_store.py: the parquet files, path -> content
    index,              \* memory_store.py: the rows of table cached_queries
    loaded,             \* memory_store.py: the last load_cached_df call
    sent,               \* the last statement the external source was sent
    call,               \* a function called on its own: its name and arguments
    ret                 \* what that call returned

vars == <<gsql, gout, pc, artifacts, pos, cur_df, dataset_summaries, reports, previews,
          full_datasets, analysis_plan, result, ui, files, index, loaded, sent,
          call, ret>>

gateVars == <<gsql, gout, call, ret>>
runVars == <<pc, artifacts, pos, cur_df, dataset_summaries, reports, previews,
             full_datasets, analysis_plan, result, ui>>
storeVars == <<files, index>>
callVars == <<call, ret>>

\* LET x == e IN F(x), with e evaluated once
Bind(e, F(_)) == CHOOSE r \in {F(x) : x \in {e}} : TRUE

SetMin(S) == CHOOSE x \in S : \A y \in S : x <= y
SetMax(S) == CHOOSE x \in S : \A y \in S : x >= y

(***************************************************************************)
(* Characters                                                              *)
(***************************************************************************)
UpperMap ==
    [c \in {"a","b","c","d","e","f","g","h","i","j","k","l","m","n","o","p",
            "q","r","s","t","u","v","w","x","y","z"} |->
        CASE c = "a" -> "A" [] c = "b" -> "B" [] c = "c" -> "C" [] c = "d" -> "D"
          [] c = "e" -> "E" [] c = "f" -> "F" [] c = "g" -> "G" [] c = "h" -> "H"
          [] c = "i" -> "I" [] c = "j" -> "J" [] c = "k" -> "K" [] c = "l" -> "L"
          [] c = "m" -> "M" [] c = "n" -> "N" [] c = "o" -> "O" [] c = "p" -> "P"
          [] c = "q" -> "Q" [] c = "r" -> "R" [] c = "s" -> "S" [] c = "t" -> "T"
          [] c = "u" -> "U" [] c = "v" -> "V" [] c = "w" -> "W" [] c = "x" -> "X"
          [] c = "y" -> "Y" [] c = "z" -> "Z"]

LowerLetters == DOMAIN UpperMap
UpperLetters == {UpperMap[c] : c \in LowerLetters}
Digits == {"0","1","2","3","4","5","6","7","8","9"}

\* re.IGNORECASE folds both sides to one case before comparing
Fold(c) == IF c \in LowerLetters THEN UpperMap[c] ELSE c

LowerMap == [c \in UpperLetters |-> CHOOSE l \in LowerLetters : UpperMap[l] = c]

Unfold(c) == IF c \in UpperLetters THEN LowerMap[c] ELSE c

\* \s of the re module, and what str.strip() removes
IsSpace(c) == c \in {" ", "\n", "\t"}

\* \w of the re module: letters, digits and the underscore
IsWordChar(c) == c \in LowerLetters \cup UpperLetters \cup Digits \cup {"_"}

(***************************************************************************)
(* str.strip / str.rstrip                                                  *)
(***************************************************************************)
\* the positions of s holding a character outside cs
Kept(s, cs) == {j \in 1..Len(s) : s[j] \notin cs}

\* s.lstrip(cs): drop the leading characters that are in cs
LStripSet(s, cs) ==
    Bind(s, LAMBDA v :
        IF Kept(v, cs) = {} THEN <<>> ELSE SubSeq(v, SetMin(Kept(v, cs)), Len(v)))

\* s.rstrip(cs): drop the trailing characters that are in cs
RStripSet(s, cs) ==
    Bind(s, LAMBDA v :
        IF Kept(v, cs) = {} THEN <<>> ELSE SubSeq(v, 1, SetMax(Kept(v, cs))))

WsChars == {" ", "\n", "\t"}

\* s.strip()
strip(s) == RStripSet(LStripSet(s, WsChars), WsChars)

\* s.strip(";")
strip_semi(s) == RStripSet(LStripSet(s, {";"}), {";"})

\* s.rstrip(";")
rstrip_semi(s) == RStripSet(s, {";"})

(***************************************************************************)
(* Regular expressions of safety.py                                        *)
(***************************************************************************)
\* the pattern text kw matches s at position p, case-insensitively
MatchAt(s, p, kw) ==
    /\ p >= 1
    /\ p + Len(kw) - 1 <= Len(s)
    /\ \A j \in 1..Len(kw) : Fold(s[p + j - 1]) = Fold(kw[j])

WordAt(s, p) == p >= 1 /\ p <= Len(s) /\ IsWordChar(s[p])

\* \b between positions p-1 and p
Boundary(s, p) == WordAt(s, p - 1) # WordAt(s, p)

\* the same search without re.IGNORECASE
SearchWordExact(s, kw) ==
    \E p \in 1..Len(s) :
        /\ p + Len(kw) - 1 <= Len(s)
        /\ \A j \in 1..Len(kw) : s[p + j - 1] = kw[j]
        /\ Boundary(s, p) /\ Boundary(s, p + Len(kw))

\* re.search(r"\bKW\b", s, re.IGNORECASE)
SearchWord(s, kw) ==
    \E p \in 1..Len(s) :
        MatchAt(s, p, kw) /\ Boundary(s, p) /\ Boundary(s, p + Len(kw))

KW_SELECT == <<"S","E","L","E","C","T">>
KW_WITH   == <<"W","I","T","H">>

FORBIDDEN == <<
    <<"I","N","S","E","R","T">>,
    <<"U","P","D","A","T","E">>,
    <<"D","E","L","E","T","E">>,
    <<"M","E","R","G","E">>,
    <<"D","R","O","P">>,
    <<"A","L","T","E","R">>,
    <<"T","R","U","N","C","A","T","E">>,
    <<"C","R","E","A","T","E">>,
    <<"G","R","A","N","T">>,
    <<"R","E","V","O","K","E">>,
    <<"E","X","E","C">>,
    <<"E","X","E","C","U","T","E">> >>

\* the pattern without its optional WITH group: ^SELECT\b
SelectPrefixNoCte(s) == MatchAt(s, 1, KW_SELECT) /\ Boundary(s, 1 + Len(KW_SELECT))

\* re.match(r"^(WITH\s+[\s\S]+?\)\s*)?SELECT\b", s, re.IGNORECASE):
\* SELECT\b at the start, or WITH, one or more \s (up to a), one or more of
\* any character, a ")" at k, any number of \s, then SELECT\b at m.
SelectPrefix(s) ==
    \/ MatchAt(s, 1, KW_SELECT) /\ Boundary(s, 1 + Len(KW_SELECT))
    \/ /\ MatchAt(s, 1, KW_WITH)
       /\ \E a \in (Len(KW_WITH) + 1)..Len(s) :
            /\ \A j \in (Len(KW_WITH) + 1)..a : IsSpace(s[j])
            /\ \E k \in (a + 2)..Len(s) :
                 /\ s[k] = ")"
                 /\ \E m \in (k + 1)..Len(s) :
                      /\ \A j \in (k + 1)..(m - 1) : IsSpace(s[j])
                      /\ MatchAt(s, m, KW_SELECT)
                      /\ Boundary(s, m + Len(KW_SELECT))

\* the loop over FORBIDDEN
HasForbidden(s) == \E n \in 1..Len(FORBIDDEN) : SearchWord(s, FORBIDDEN[n])

\* s = sql.strip().strip(";"), then the two tests on s
is_select_only(sql) ==
    Bind(strip_semi(strip(sql)), LAMBDA s :
        IF ~SelectPrefix(s) THEN FALSE
        ELSE IF HasForbidden(s) THEN FALSE
        ELSE TRUE)

\* enforce_select_only: returns normally ("accept") or raises ValueError
enforce_select_only(sql) == IF is_select_only(sql) THEN "accept" ELSE "raise"

(***************************************************************************)
(* Generic helpers                                                         *)
(***************************************************************************)
None == <<>>
Some(x) == <<x>>

Min2(a, b) == IF a <= b THEN a ELSE b

\* s[:n]
Take(s, n) == SubSeq(s, 1, Min2(n, Len(s)))

RECURSIVE GCD(_, _)
GCD(a, b) == IF b = 0 THEN a ELSE GCD(b, a % b)

Abs(x) == IF x < 0 THEN -x ELSE x

\* a Python int
IntVal(n) == [t |-> "int", n |-> n, d |-> 1]

\* a Python float, kept as the exact fraction n/d in lowest terms
FloatVal(n, d) ==
    LET g == GCD(Abs(n), d)
    IN  [t |-> "float", n |-> n \div g, d |-> d \div g]

RECURSIVE SumSeq(_)
SumSeq(s) == IF s = <<>> THEN 0 ELSE Head(s) + SumSeq(Tail(s))

\* items are pairs <<key, payload>>.  The place of item j in the ascending
\* stable order: the number of items that go before it, plus one
RankAsc(v, j) ==
    1 + Cardinality({m \in 1..Len(v) : v[m][1] < v[j][1] \/ (v[m][1] = v[j][1] /\ m < j)})

SortAsc(items) ==
    Bind(items, LAMBDA v :
        [r \in 1..Len(v) |-> v[CHOOSE j \in 1..Len(v) : RankAsc(v, j) = r]])

\* descending by key, equal keys kept in their original order
RankDesc(v, j) ==
    1 + Cardinality({m \in 1..Len(v) : v[m][1] > v[j][1] \/ (v[m][1] = v[j][1] /\ m < j)})

SortDesc(items) ==
    Bind(items, LAMBDA v :
        [r \in 1..Len(v) |-> v[CHOOSE j \in 1..Len(v) : RankDesc(v, j) = r]])

(***************************************************************************)
(* pandas DataFrames.  A value is a number, a missing value (None/NaN/NaT),*)
(* a text that does not parse as a date, or a date (a timestamp, or in an  *)
(* object column a text that pd.to_datetime parses), ordered by v.         *)
(* Column names are unique within a frame.                                 *)
(***************************************************************************)
Num(n)  == [k |-> "num",  v |-> n]
NA      == [k |-> "na",   v |-> 0]
Txt(n)  == [k |-> "txt",  v |-> n]
Date(n) == [k |-> "date", v |-> n]

Column(name, dtype, vals) == [name |-> name, dtype |-> dtype, vals |-> vals]

\* df.shape == (df.n, Len(df.cols))
DataFrame(n, cols) == [n |-> n, cols |-> cols]

ColumnNames(df) == [j \in 1..Len(df.cols) |-> df.cols[j].name]

HasColumn(df, name) == \E j \in 1..Len(df.cols) : df.cols[j].name = name

\* df[name]
GetColumn(df, name) ==
    df.cols[CHOOSE j \in 1..Len(df.cols) : df.cols[j].name = name]

\* pd.api.types.is_datetime64_any_dtype
is_datetime64_any_dtype(col) == col.dtype = "datetime64"

\* pd.api.types.is_numeric_dtype
is_numeric_dtype(col) == col.dtype \in {"int64", "float64"}

IsNA(v) == v.k = "na"

\* pd.to_numeric(s, errors="coerce").dropna(): the numbers of the column
NumericValues(col) ==
    Bind(SelectSeq(col.vals, LAMBDA v : v.k = "num"), LAMBDA nums :
        [j \in 1..Len(nums) |-> nums[j].v])

\* pd.to_datetime(s, errors="coerce") then dropna(): the dates of the column
DateValues(col) ==
    Bind(SelectSeq(col.vals, LAMBDA v : v.k = "date"), LAMBDA ds :
        [j \in 1..Len(ds) |-> ds[j].v])

NACount(col) == Len(SelectSeq(col.vals, LAMBDA v : IsNA(v)))

SeqMin(s) == CHOOSE x \in {s[j] : j \in 1..Len(s)} : \A j \in 1..Len(s) : x <= s[j]
SeqMax(s) == CHOOSE x \in {s[j] : j \in 1..Len(s)} : \A j \in 1..Len(s) : x >= s[j]

\* s.sum() / s.mean() of a non-empty numeric series
SeriesSum(nums) == FloatVal(SumSeq(nums), 1)
SeriesMean(nums) == FloatVal(SumSeq(nums), Len(nums))

QuantileNum == 19
QuantileDen == 20

\* s.quantile(0.95), linear interpolation between order statistics:
\* h = (n-1)*0.95, value = x[lo] + (h - lo) * (x[lo+1] - x[lo])
SeriesP95(nums) ==
    Bind(SortAsc([j \in 1..Len(nums) |-> <<nums[j], j>>]), LAMBDA x :
        LET h  == (Len(x) - 1) * QuantileNum
            lo == h \div QuantileDen
            fr == h % QuantileDen
            hi == Min2(lo + 2, Len(x))
        IN  FloatVal(QuantileDen * x[lo + 1][1] + fr * (x[hi][1] - x[lo + 1][1]),
                     QuantileDen))

\* df.head(n)
HeadRows(df, n) ==
    DataFrame(Min2(n, df.n),
              [j \in 1..Len(df.cols) |->
                  Column(df.cols[j].name, df.cols[j].dtype, Take(df.cols[j].vals, n))])

(***************************************************************************)
(* executor.py: column classes                                             *)
(***************************************************************************)
\* parsed.notna().mean() > 0.8 as a comparison of integers; the mean of an
\* empty column is NaN and compares False
DateShareNum == 8
DateShareDen == 10

ParsesMostlyAsDatesAtLeast(col) ==
    /\ Len(col.vals) > 0
    /\ DateShareDen * Len(DateValues(col)) >= DateShareNum * Len(col.vals)

ParsesMostlyAsDates(col) ==
    /\ Len(col.vals) > 0
    /\ DateShareDen * Len(DateValues(col)) > DateShareNum * Len(col.vals)

\* the first loop of _infer_column_types: by dtype
DtypeClass(col) ==
    IF is_datetime64_any_dtype(col) THEN "time"
    ELSE IF is_numeric_dtype(col) THEN "num"
    ELSE "cat"

\* the second loop: an object column of cat_cols moves to time_cols
MovesToTime(col) ==
    DtypeClass(col) = "cat" /\ col.dtype = "object" /\ ParsesMostlyAsDates(col)

\* a column moved to time_cols stays in cat_cols
NeverRemovedFromCat(col) == FALSE

\* cat_cols.remove(c), done for the columns that move
RemovedFromCat(col) == MovesToTime(col)

\* (time_cols, num_cols, cat_cols), each in the order the code appends
_infer_column_types(df) ==
    LET names(P(_)) ==
            LET sel == SelectSeq(df.cols, P)
            IN  [j \in 1..Len(sel) |-> sel[j].name]
    IN  [time |-> names(LAMBDA c : DtypeClass(c) = "time")
                    \o names(LAMBDA c : MovesToTime(c)),
         num  |-> names(LAMBDA c : DtypeClass(c) = "num"),
         cat  |-> names(LAMBDA c : DtypeClass(c) = "cat" /\ ~RemovedFromCat(c))]

(***************************************************************************)
(* executor.py: the generic KPIs, highlights and risks of one dataset      *)
(***************************************************************************)
KPIValue(name, value, note) == [name |-> name, value |-> value, note |-> note]

MaxNumericKpiCols == 6
MaxNumericListed == 10
TopMissing == 5
TopCategories == 5
max_rows_preview == 50

Suffix_sum == <<"_","_","s","u","m">>
Suffix_avg == <<"_","_","a","v","g">>
Suffix_p95 == <<"_","_","p","9","5">>

\* the three KPIs of one numeric column, none when no number is left
NumericKpis(df, c) ==
    Bind(NumericValues(GetColumn(df, c)), LAMBDA s :
        IF Len(s) > 0
        THEN << KPIValue(c \o Suffix_sum, SeriesSum(s), None),
                KPIValue(c \o Suffix_avg, SeriesMean(s), None),
                KPIValue(c \o Suffix_p95, SeriesP95(s), None) >>
        ELSE <<>>)

RECURSIVE ConcatAll(_)
ConcatAll(ss) == IF ss = <<>> THEN <<>> ELSE Head(ss) \o ConcatAll(Tail(ss))

GenericKpis(df, num_cols) ==
    << KPIValue(<<"r","o","w","s">>, IntVal(df.n), None),
       KPIValue(<<"c","o","l","u","m","n","s">>, IntVal(Len(df.cols)), None) >>
    \o ConcatAll([j \in 1..Len(Take(num_cols, MaxNumericKpiCols)) |->
                    NumericKpis(df, num_cols[j])])

\* f"{x:.1f}" of 100 * na / n, in tenths of a percent
PercentTenths(na, n) == (2000 * na + n) \div (2 * n)

\* (df.isna().mean() * 100).sort_values(ascending=False).head(5); with no
\* rows every mean is NaN and the note is not written
GenericRisks(df) ==
    Bind(Take(SortDesc([j \in 1..Len(df.cols) |->
                          <<NACount(df.cols[j]), df.cols[j].name>>]), TopMissing),
         LAMBDA top :
        IF df.n > 0 /\ top # <<>> /\ top[1][1] > 0
        THEN << [kind |-> "Top missing columns (%)",
                 items |-> [j \in 1..Len(top) |->
                     [col |-> top[j][2], pct |-> PercentTenths(top[j][1], df.n)]]] >>
        ELSE <<>>)

\* df[c].astype(str).value_counts(dropna=True).head(5): every value, the
\* missing ones too (astype(str) makes them texts), most frequent first
ValueCounts(col) ==
    LET vals == col.vals
        firsts == SelectSeq([j \in 1..Len(vals) |-> j],
                            LAMBDA j : \A i \in 1..(j - 1) : vals[i] # vals[j])
        count(j) == Cardinality({i \in 1..Len(vals) : vals[i] = vals[j]})
    IN  SortDesc([m \in 1..Len(firsts) |-> <<count(firsts[m]), vals[firsts[m]]>>])

GenericHighlights(df, types) ==
    (IF types.num # <<>>
     THEN << [kind |-> "Detected numeric columns",
              cols |-> Take(types.num, MaxNumericListed)] >>
     ELSE <<>>)
    \o
    (IF types.time # <<>> /\ DateValues(GetColumn(df, types.time[1])) # <<>>
     THEN LET t == DateValues(GetColumn(df, types.time[1]))
          IN  << [kind |-> "Time column spans", col |-> types.time[1],
                  min |-> SeqMin(t), max |-> SeqMax(t)] >>
     ELSE <<>>)
    \o
    (IF types.cat # <<>>
     THEN Bind(Take(ValueCounts(GetColumn(df, types.cat[1])), TopCategories),
               LAMBDA vc :
               << [kind |-> "Top", col |-> types.cat[1],
                   items |-> [j \in 1..Len(vc) |->
                                 [value |-> vc[j][2], count |-> vc[j][1]]]] >>)
     ELSE <<>>)

DatasetSummary(art, cache_key, parquet_path, df) ==
    Bind(_infer_column_types(df), LAMBDA types :
        [dataset_name |-> art.dataset_name,
         cache_key    |-> cache_key,
         parquet_path |-> parquet_path,
         n_rows       |-> df.n,
         n_cols       |-> Len(df.cols),
         columns      |-> ColumnNames(df),
         inferred_time_columns        |-> types.time,
         inferred_numeric_columns     |-> types.num,
         inferred_categorical_columns |-> types.cat])

KPIReport(art, df) ==
    Bind(_infer_column_types(df), LAMBDA types :
        [dataset_name |-> art.dataset_name,
         kpis         |-> GenericKpis(df, types.num),
         highlights   |-> GenericHighlights(df, types),
         risks        |-> GenericRisks(df)])

(***************************************************************************)
(* kpi_engine.py                                                           *)
(***************************************************************************)
KPIComputed(name, value, note) == [name |-> name, value |-> value, note |-> note]

\* str.lower()
Lower(s) == [j \in 1..Len(s) |-> Unfold(s[j])]

\* the characters of s at the positions of K, in order
Pick(s, K) ==
    [r \in 1..Cardinality(K) |->
        s[CHOOSE j \in K : Cardinality({m \in K : m < j}) = r - 1]]

\* each run of characters outside [a-z0-9] becomes one space: every such
\* character becomes a space, and a space that follows a space is dropped
SubNonAlnum(low) ==
    Bind([j \in 1..Len(low) |->
             IF low[j] \in LowerLetters \cup Digits THEN low[j] ELSE " "],
         LAMBDA sp :
            Pick(sp, {j \in 1..Len(sp) : sp[j] # " " \/ j = 1 \/ sp[j - 1] # " "}))

\* re.sub(r"[^a-z0-9]+", " ", s.lower()).strip()
_norm(s) == strip(Bind(Lower(s), LAMBDA low : SubNonAlnum(low)))

\* needle in hay
Contains(hay, needle) ==
    \E p \in 1..(Len(hay) - Len(needle) + 1) :
        SubSeq(hay, p, p + Len(needle) - 1) = needle

StartsWith(s, pre) == Len(pre) <= Len(s) /\ SubSeq(s, 1, Len(pre)) = pre

ScoreKeyword == 3
ScoreExact == 2
ScoreNumeric == 1

ColumnScore(col, keywords, prefer_numeric) ==
    Bind(_norm(col.name), LAMBDA cn :
        ScoreKeyword * Cardinality({n \in 1..Len(keywords) : Contains(cn, keywords[n])})
        + (IF \E n \in 1..Len(keywords) : cn = keywords[n] THEN ScoreExact ELSE 0)
        + (IF prefer_numeric /\ is_numeric_dtype(col) THEN ScoreNumeric ELSE 0))

\* scored.sort(reverse=True, key=score) keeps equal scores in column order;
\* the result is Some(name) or None
_pick_best_column(df, keywords, prefer_numeric) ==
    Bind(SortDesc([j \in 1..Len(df.cols) |->
                    <<ColumnScore(df.cols[j], keywords, prefer_numeric),
                      df.cols[j].name>>]),
         LAMBDA scored :
            IF scored # <<>> /\ scored[1][1] > 0 THEN Some(scored[1][2]) ELSE None)

AGG_sum == <<"s","u","m">>
AGG_avg == <<"a","v","g">>
AGG_min == <<"m","i","n">>
AGG_max == <<"m","a","x">>
AGG_p95 == <<"p","9","5">>
AGG_count_distinct == <<"c","o","u","n","t","_","d","i","s","t","i","n","c","t">>
TXT_count_rows == <<"c","o","u","n","t","_","r","o","w","s">>

\* float("nan")
NaN == [t |-> "float", n |-> 0, d |-> 0]

\* _safe_agg without "if s.dropna().empty: return None": the sum of nothing is
\* 0.0 and every other aggregate of nothing is nan
UncheckedAgg(df, col, agg) ==
    IF ~HasColumn(df, col) THEN None
    ELSE Bind(NumericValues(GetColumn(df, col)), LAMBDA s :
             IF s = <<>> THEN (IF agg = AGG_sum THEN Some(FloatVal(0, 1)) ELSE Some(NaN))
             ELSE IF agg = AGG_sum THEN Some(SeriesSum(s))
             ELSE IF agg = AGG_avg THEN Some(SeriesMean(s))
             ELSE IF agg = AGG_min THEN Some(FloatVal(SeqMin(s), 1))
             ELSE IF agg = AGG_max THEN Some(FloatVal(SeqMax(s), 1))
             ELSE IF agg = AGG_p95 THEN Some(SeriesP95(s))
             ELSE None)

\* Some(float) or None
_safe_agg(df, col, agg) ==
    IF ~HasColumn(df, col) THEN None
    ELSE Bind(NumericValues(GetColumn(df, col)), LAMBDA s :
             IF s = <<>> THEN None
             ELSE IF agg = AGG_sum THEN Some(SeriesSum(s))
             ELSE IF agg = AGG_avg THEN Some(SeriesMean(s))
             ELSE IF agg = AGG_min THEN Some(FloatVal(SeqMin(s), 1))
             ELSE IF agg = AGG_max THEN Some(FloatVal(SeqMax(s), 1))
             ELSE IF agg = AGG_p95 THEN Some(SeriesP95(s))
             ELSE None)

\* count() in place of nunique(): the non-missing values, repeated or not
CountNonMissing(df, col) ==
    IF ~HasColumn(df, col) THEN None
    ELSE LET vals == GetColumn(df, col).vals
         IN  Some(IntVal(Cardinality({m \in 1..Len(vals) : ~IsNA(vals[m])})))

\* Some(int(df[col].nunique(dropna=True))) or None
_safe_count_distinct(df, col) ==
    IF ~HasColumn(df, col) THEN None
    ELSE LET vals == GetColumn(df, col).vals
         IN  Some(IntVal(Cardinality({vals[j] : j \in {m \in 1..Len(vals) : ~IsNA(vals[m])}})))

_safe_count_rows(df) == IntVal(df.n)

HintAggs == <<AGG_sum, AGG_avg, AGG_min, AGG_max, AGG_p95, AGG_count_distinct>>

\* hint_re.match(h):
\*   ^(sum|avg|min|max|p95|count_distinct)\(([^)]+)\)$|^count_rows\(\)$
\* with re.IGNORECASE; group 1 and group 2 of the first alternative
hint_re_match(h) ==
    LET fits(a) == /\ MatchAt(h, 1, a)
                   /\ Len(h) >= Len(a) + 3
                   /\ h[Len(a) + 1] = "("
                   /\ h[Len(h)] = ")"
                   /\ \A j \in (Len(a) + 2)..(Len(h) - 1) : h[j] # ")"
        hits == {n \in 1..Len(HintAggs) : fits(HintAggs[n])}
    IN  IF hits # {}
        THEN LET n == CHOOSE m \in hits : \A o \in hits : m <= o
             IN  [matched |-> TRUE,
                  g1 |-> SubSeq(h, 1, Len(HintAggs[n])),
                  g2 |-> SubSeq(h, Len(HintAggs[n]) + 2, Len(h) - 1)]
        ELSE IF Len(h) = Len(TXT_count_rows) + 2
                /\ MatchAt(h, 1, TXT_count_rows \o <<"(", ")">>)
        THEN [matched |-> TRUE, g1 |-> <<>>, g2 |-> <<>>]
        ELSE [matched |-> FALSE, g1 |-> <<>>, g2 |-> <<>>]

\* m.group(2).strip().strip('"').strip("'")
HintColumn(g2) ==
    RStripSet(LStripSet(RStripSet(LStripSet(strip(g2), {"\""}), {"\""}), {"'"}), {"'"})

WORDS_count == << <<"c","o","u","n","t">>, <<"t","o","t","a","l">>,
                  <<"n","u","m","b","e","r"," ","o","f">>, <<"v","o","l","u","m","e">> >>

WORDS_active == << <<"a","c","t","i","v","e">> >>

WORDS_money == << <<"r","e","v","e","n","u","e">>, <<"a","m","o","u","n","t">>,
                  <<"s","p","e","n","d">>, <<"s","a","l","e","s">>,
                  <<"e","a","r","n","i","n","g">>, <<"e","a","r","n">>,
                  <<"r","e","d","e","e","m">>,
                  <<"r","e","d","e","m","p","t","i","o","n">>,
                  <<"p","o","i","n","t","s">> >>

COLS_id_count == << <<"c","u","s","t","o","m","e","r">>, <<"u","s","e","r">>,
                    <<"m","e","m","b","e","r">>, <<"a","c","c","o","u","n","t">>,
                    <<"c","l","i","e","n","t">>, <<"c","u","s","t">>,
                    <<"u","s","e","r","i","d">>,
                    <<"c","u","s","t","o","m","e","r","i","d">> >>

COLS_id_active == << <<"c","u","s","t","o","m","e","r">>, <<"u","s","e","r">>,
                     <<"m","e","m","b","e","r">>, <<"a","c","c","o","u","n","t">>,
                     <<"c","l","i","e","n","t">>, <<"c","u","s","t">>,
                     <<"c","u","s","t","o","m","e","r","i","d">> >>

COLS_money == << <<"a","m","o","u","n","t">>, <<"a","m","t">>,
                 <<"r","e","v","e","n","u","e">>, <<"s","a","l","e","s">>,
                 <<"s","p","e","n","d">>, <<"e","a","r","n","i","n","g">>,
                 <<"e","a","r","n","e","d">>, <<"r","e","d","e","e","m">>,
                 <<"r","e","d","e","m","p","t","i","o","n">>,
                 <<"p","o","i","n","t","s">>, <<"p","o","i","n","t">>,
                 <<"v","a","l","u","e">> >>

AnyIn(words, text) == \E n \in 1..Len(words) : Contains(text, words[n])

NOTE_from_hint == <<"f","r","o","m"," ","f","o","r","m","u","l","a","_","h","i","n","t">>
NOTE_h_distinct == <<"h","e","u","r","i","s","t","i","c"," ","d","i","s","t","i","n","c","t"," ","o","n"," ">>
NOTE_h_rows == <<"h","e","u","r","i","s","t","i","c"," ","r","o","w"," ","c","o","u","n","t">>
NOTE_h_active_distinct == <<"h","e","u","r","i","s","t","i","c"," ","a","c","t","i","v","e"," ","d","i","s","t","i","n","c","t"," ","o","n"," ">>
NOTE_h_active_rows == <<"h","e","u","r","i","s","t","i","c"," ","a","c","t","i","v","e"," ","r","o","w","s">>
NOTE_h_sum == <<"h","e","u","r","i","s","t","i","c"," ","s","u","m","(">>
NOTE_fallback == <<"f","a","l","l","b","a","c","k"," ","r","o","w","s">>

\* Python's None as the value of a KPIComputed
NoneValue == [t |-> "None", n |-> 0, d |-> 1]

\* an Optional result passed on as a value
OptValue(opt) == IF opt = None THEN NoneValue ELSE opt[1]

\* Each rule below is the sequence of KPIComputed its branch appends to out.

\* rule a) of the heuristic path: counts
CountRule(k_name, df) ==
    Bind(_pick_best_column(df, COLS_id_count, FALSE), LAMBDA id_col :
        IF id_col # None
        THEN <<KPIComputed(k_name, OptValue(_safe_count_distinct(df, id_col[1])),
                           Some(NOTE_h_distinct \o id_col[1]))>>
        ELSE <<KPIComputed(k_name, _safe_count_rows(df), Some(NOTE_h_rows))>>)

\* the "active" rule
ActiveRule(k_name, df) ==
    Bind(_pick_best_column(df, COLS_id_active, FALSE), LAMBDA id_col :
        IF id_col # None
        THEN <<KPIComputed(k_name, OptValue(_safe_count_distinct(df, id_col[1])),
                           Some(NOTE_h_active_distinct \o id_col[1]))>>
        ELSE <<KPIComputed(k_name, _safe_count_rows(df), Some(NOTE_h_active_rows))>>)

\* no default: an iteration that reaches the end of the body appends nothing
NoFallbackRule(k_name, df) == <<>>

\* rule c): the default
FallbackRule(k_name, df) ==
    <<KPIComputed(IF k_name # <<>> THEN k_name ELSE <<"r","o","w","s">>,
                  _safe_count_rows(df), Some(NOTE_fallback))>>

\* rule b): money; falls to the default when no column or no number is found
MoneyRule(k_name, df) ==
    Bind(_pick_best_column(df, COLS_money, TRUE), LAMBDA col :
        Bind(IF col # None THEN _safe_agg(df, col[1], AGG_sum) ELSE None, LAMBDA val :
            IF val # None
            THEN <<KPIComputed(k_name, val[1], Some(NOTE_h_sum \o col[1] \o <<")">>))>>
            ELSE FallbackRule(k_name, df)))

\* the same rules with the money rule tried first
MoneyFirstKpi(k_name, k_desc, df) ==
    Bind(_norm(k_name \o <<" ">> \o k_desc), LAMBDA text :
        IF AnyIn(WORDS_money, text) THEN MoneyRule(k_name, df)
        ELSE IF AnyIn(WORDS_count, text) THEN CountRule(k_name, df)
        ELSE IF AnyIn(WORDS_active, text) THEN ActiveRule(k_name, df)
        ELSE FallbackRule(k_name, df))

\* the heuristic path (2) of the loop body, for one KPI and one dataset
HeuristicKpi(k_name, k_desc, df) ==
    Bind(_norm(k_name \o <<" ">> \o k_desc), LAMBDA text :
        IF AnyIn(WORDS_count, text) THEN CountRule(k_name, df)
        ELSE IF AnyIn(WORDS_active, text) THEN ActiveRule(k_name, df)
        ELSE IF AnyIn(WORDS_money, text) THEN MoneyRule(k_name, df)
        ELSE FallbackRule(k_name, df))

\* the body of "if m:" for the stripped hint h and its match m
MatchedHintKpi(k_name, h, m, df) ==
    IF StartsWith(Lower(h), TXT_count_rows)
    THEN Some(KPIComputed(IF k_name # <<>> THEN k_name ELSE TXT_count_rows,
                          _safe_count_rows(df), Some(NOTE_from_hint)))
    ELSE Bind(Lower(m.g1), LAMBDA agg :
         Bind(HintColumn(m.g2), LAMBDA col :
         Bind(IF agg = AGG_count_distinct
              THEN _safe_count_distinct(df, col)
              ELSE _safe_agg(df, col, agg), LAMBDA val :
            IF val # None
            THEN Some(KPIComputed(k_name, val[1],
                                  Some(NOTE_from_hint \o <<":", " ">> \o h)))
            ELSE None)))

\* the formula_hint path (1): Some(KPIComputed) when it appends and continues,
\* None when it falls through to the heuristics
HintKpi(k_name, hint, df) ==
    IF hint = None THEN None
    ELSE Bind(strip(hint[1]), LAMBDA h :
            IF h = <<>> THEN None
            ELSE Bind(hint_re_match(h), LAMBDA m :
                    IF ~m.matched THEN None ELSE MatchedHintKpi(k_name, h, m, df)))

\* one iteration of "for k in kpis" for a mapping k: what it appends to out
PlanKpi(k, df) ==
    Bind(strip(k.name), LAMBDA k_name :
    Bind(strip(k.description), LAMBDA k_desc :
    Bind(HintKpi(k_name, k.formula_hint, df), LAMBDA byHint :
        IF byHint # None THEN byHint ELSE HeuristicKpi(k_name, k_desc, df))))

ERR_no_get == "'str' object has no attribute 'get'"

\* compute_kpis_from_plan(plan, datasets): datasets is the ordered dict as a
\* sequence of [name, df]; k.get raises AttributeError for an entry of
\* plan["kpis"] that is no mapping, as soon as a dataset is iterated.
\* Returns [ok, map (a sequence of [name, list]), exc].
compute_kpis_from_plan(plan, datasets) ==
    LET kpis == plan.kpis
    IN  IF datasets # <<>> /\ \E n \in 1..Len(kpis) : ~kpis[n].mapping
        THEN [ok |-> FALSE, map |-> <<>>, exc |-> ERR_no_get]
        ELSE [ok |-> TRUE,
              map |-> [d \in 1..Len(datasets) |->
                         [name |-> datasets[d].name,
                          list |-> ConcatAll([n \in 1..Len(kpis) |->
                                                PlanKpi(kpis[n], datasets[d].df)])]],
              exc |-> ""]

(***************************************************************************)
(* The external source: what pd.read_sql_query answers                     *)
(***************************************************************************)
Q_SALES  == <<"S","E","L","E","C","T"," ","*"," ","F","R","O","M"," ","s">>
Q_USERS  == <<" ","S","E","L","E","C","T"," ","*"," ","F","R","O","M"," ","u"," ",";">>
Q_DELETE == <<"D","E","L","E","T","E"," ","F","R","O","M"," ","u">>

c_amount  == <<"a","m","o","u","n","t">>
c_region  == <<"r","e","g","i","o","n">>
c_sold_at == <<"s","o","l","d","_","a","t">>
c_user_id == <<"u","s","e","r","_","i","d">>
c_joined  == <<"j","o","i","n","e","d">>
c_tier    == <<"t","i","e","r">>

T_sales ==
    DataFrame(3, << Column(c_amount, "int64", <<Num(10), Num(20), Num(30)>>),
                    Column(c_region, "object", <<Txt(1), Txt(2), Txt(1)>>),
                    Column(c_sold_at, "datetime64", <<Date(1), Date(2), Date(3)>>) >>)

T_users ==
    DataFrame(3, << Column(c_user_id, "int64", <<Num(1), Num(1), Num(2)>>),
                    Column(c_joined, "object", <<Date(5), Date(6), Date(7)>>),
                    Column(c_tier, "object", <<Txt(3), NA, Txt(3)>>) >>)

\* the answer of the source to statement q: [ok, df]
read_sql_query(q) ==
    IF strip(q) = strip(rstrip_semi(strip(Q_SALES))) THEN [ok |-> TRUE, df |-> T_sales]
    ELSE IF strip(q) = strip(rstrip_semi(strip(Q_USERS))) THEN [ok |-> TRUE, df |-> T_users]
    ELSE [ok |-> FALSE, df |-> DataFrame(0, <<>>)]

(***************************************************************************)
(* Inputs of a run                                                         *)
(***************************************************************************)
MaxArtifacts == 2

NoKey == ""
DatasetNames == {"sales", "users"}
SqlTexts == {Q_SALES, Q_USERS, Q_DELETE}
CacheKeys == {NoKey, "k1"}

Artifacts == [dataset_name : DatasetNames, sql : SqlTexts, cache_key : CacheKeys]

ArtifactLists == UNION { [1..n -> Artifacts] : n \in 0..MaxArtifacts }

KPI(name, description, formula_hint) ==
    [mapping |-> TRUE, name |-> name, description |-> description,
     formula_hint |-> formula_hint]

\* an entry of plan["kpis"] that is no mapping (a bare string)
NotAMapping ==
    [mapping |-> FALSE, name |-> <<>>, description |-> <<>>, formula_hint |-> None]

n_total_sales == <<"T","o","t","a","l"," ","S","a","l","e","s">>
n_active      == <<"A","c","t","i","v","e"," ","U","s","e","r","s">>
h_sum_amount  == <<"s","u","m","(","a","m","o","u","n","t",")">>

KPI_total_sales == KPI(n_total_sales, <<>>, Some(h_sum_amount))
KPI_active == KPI(n_active, <<>>, None)

\* analysis_plan: None, or Some(plan); a plan with no key is the empty dict
Plan(kpis) == [empty |-> FALSE, kpis |-> kpis]
EmptyDict == [empty |-> TRUE, kpis |-> <<>>]

Plans ==
    { None, Some(EmptyDict), Some(Plan(<<>>)),
      Some(Plan(<<KPI_total_sales>>)),
      Some(Plan(<<KPI_total_sales, KPI_active>>)),
      Some(Plan(<<KPI_active, NotAMapping>>)) }

(***************************************************************************)
(* executor.py: cache keys                                                 *)
(***************************************************************************)
\* hashlib.sha256(sql.encode("utf-8")).hexdigest()[:12]: a function of the
\* text alone, with distinct digests for the texts of SqlTexts
Sha12(sql) ==
    IF sql = strip(Q_SALES) THEN "5a1e5a1e5a1e"
    ELSE IF sql = strip(Q_USERS) THEN "05e505e505e5"
    ELSE IF sql = strip(Q_DELETE) THEN "de1e7ede1e7e"
    ELSE "ffffffffffff"

cache_prefix == "ds"

_mk_cache_key(prefix, sql) == prefix \o "_" \o Sha12(sql)

\* a derived key that also depends on when the run is made
CacheKeyPerRun(art) ==
    IF art.cache_key # NoKey THEN art.cache_key
    ELSE _mk_cache_key(cache_prefix, strip(art.sql))
         \o (IF ui.execution_bundle # None THEN "_again" ELSE "")

\* cache_key = art.cache_key or _mk_cache_key(cache_prefix, sql)
CacheKeyOf(art) ==
    IF art.cache_key # NoKey THEN art.cache_key
    ELSE _mk_cache_key(cache_prefix, strip(art.sql))

(***************************************************************************)
(* memory_store.py                                                         *)
(***************************************************************************)
\* one file name for the whole directory, whatever the key
SharedParquetPath(key) == "parquet/" \o cache_prefix \o ".parquet"

\* parquet_dir / f"{key}.parquet"
ParquetPath(key) == "parquet/" \o key \o ".parquet"

\* df.to_parquet(path, index=False) / a write that stopped part-way
ParquetFile(frame) == [complete |-> TRUE, n |-> frame.n, cols |-> frame.cols]
PartialFile == [complete |-> FALSE, n |-> 0, cols |-> <<>>]

\* pd.read_parquet of a complete file
ReadParquet(file) == DataFrame(file.n, file.cols)

FileExists(path) == path \in DOMAIN files

\* a write that empties the directory first
WriteAlone(fs, path, file) == [f \in {path} |-> file]

\* df.to_parquet(path): the file at path is created or replaced
WriteAt(fs, path, file) ==
    [f \in DOMAIN fs \cup {path} |-> IF f = path THEN file ELSE fs[f]]

Row(key, path) == [cache_key |-> key, parquet_path |-> path]

\* SELECT parquet_path FROM cached_queries WHERE cache_key = ?
RowsOf(idx, key) == SelectSeq(idx, LAMBDA r : r.cache_key = key)

IndexKeys(idx) == {idx[j].cache_key : j \in 1..Len(idx)}

\* INSERT INTO cached_queries(cache_key, parquet_path) on a table without
\* the PRIMARY KEY: the row is added beside the ones it should replace
InsertRow(idx, key, path) == Append(idx, Row(key, path))

\* a replace of the whole table by the one row
ReplaceTable(idx, key, path) == <<Row(key, path)>>

\* INSERT OR REPLACE INTO cached_queries(cache_key, parquet_path), cache_key
\* being the PRIMARY KEY: the row of that key is replaced, or a row is added
Upsert(idx, key, path) ==
    IF RowsOf(idx, key) # <<>>
    THEN [j \in 1..Len(idx) |->
            IF idx[j].cache_key = key THEN Row(key, path) ELSE idx[j]]
    ELSE Append(idx, Row(key, path))

NoFrame == DataFrame(0, <<>>)

Loaded(kind, key, frame) == [kind |-> kind, key |-> key, df |-> frame]

\* load_cached_df(key): None ("absent") for no row; otherwise
\* pd.read_parquet(path), which raises for a missing or unreadable file
load_cached_df(key) ==
    Bind(RowsOf(index, key), LAMBDA rows :
        IF rows = <<>> THEN Loaded("absent", key, NoFrame)
        ELSE IF ~FileExists(rows[1].parquet_path)
             THEN Loaded("FileNotFoundError", key, NoFrame)
             ELSE IF ~files[rows[1].parquet_path].complete
                  THEN Loaded("ArrowInvalid", key, NoFrame)
                  ELSE Loaded("data", key, ReadParquet(files[rows[1].parquet_path])))

(***************************************************************************)
(* State machine of one run of execute_and_cache_artifacts, called from    *)
(* the "Execute Task-4 SQL" block of app.py                                *)
(***************************************************************************)
Running == {"gate", "query", "write", "index", "summarize", "plan"}
Ended == {"returned", "raised", "crashed"}

\* str(e) of an exception, as the sequence of its parts: a fixed text, or a
\* value formatted into the message under the name of what it is
Text(s) == [part |-> "text", value |-> s]
Formatted(what, v) == [part |-> what, value |-> v]

NoResult == [kind |-> "none", type |-> "", msg |-> <<>>, datasets |-> <<>>,
             reports |-> <<>>]
Raised(type, msg) == [kind |-> "raised", type |-> type, msg |-> msg,
                      datasets |-> <<>>, reports |-> <<>>]
Returned(ds, rs) == [kind |-> "returned", type |-> "", msg |-> <<>>,
                     datasets |-> ds, reports |-> rs]

NoUi == [execution_bundle |-> None, error |-> None]

MSG_blocked == "BLOCKED non-SELECT SQL. Only read-only SELECT queries are allowed."
MSG_query == "query failed"
MSG_parquet == "parquet write failed"
MSG_duckdb == "index upsert failed"

NothingSent == [sent |-> FALSE, src |-> <<>>, q |-> <<>>, gate |-> "none"]
Sent(src, q, verdict) == [sent |-> TRUE, src |-> src, q |-> q, gate |-> verdict]

\* d[name] = value on an insertion-ordered dict kept as a sequence
DictPut(d, name, value) ==
    IF \E j \in 1..Len(d) : d[j].name = name
    THEN [j \in 1..Len(d) |-> IF d[j].name = name
                              THEN [name |-> name, df |-> value] ELSE d[j]]
    ELSE Append(d, [name |-> name, df |-> value])

\* no function is called on its own
NoCall == [fn |-> "none"]

InitRun ==
    /\ pc = "idle"
    /\ artifacts = <<>>
    /\ pos = 0
    /\ cur_df = None
    /\ dataset_summaries = <<>>
    /\ reports = <<>>
    /\ previews = <<>>
    /\ full_datasets = <<>>
    /\ analysis_plan = None
    /\ result = NoResult
    /\ ui = NoUi
    /\ files = << >>
    /\ index = << >>
    /\ loaded = Loaded("none", "", NoFrame)
    /\ sent = NothingSent

\* the exception leaves execute_and_cache_artifacts and reaches
\* "except Exception as e: st.error(f"Execution failed: {e}")" of app.py
Raise(type, msg) ==
    /\ pc' = "raised"
    /\ result' = Raised(type, msg)
    /\ ui' = [ui EXCEPT !.error = Some(<<Text("Execution failed: ")>> \o msg)]

\* app.py calls execute_and_cache_artifacts(engine, mem, sql_out.artifacts, ...)
Begin ==
    /\ pc = "idle"
    /\ \E arts \in ArtifactLists :
         /\ artifacts' = arts
         /\ pos' = 1
         /\ pc' = IF arts = <<>> THEN "plan" ELSE "gate"
    /\ UNCHANGED <<cur_df, dataset_summaries, reports, previews, full_datasets,
                   analysis_plan, result, ui, files, index, loaded, sent,
                   gsql, gout, call, ret>>

\* sql = art.sql.strip(); enforce_select_only(sql)
Gate ==
    /\ pc = "gate"
    /\ IF enforce_select_only(strip(artifacts[pos].sql)) = "raise"
       THEN Raise("ValueError", <<Text(MSG_blocked)>>)
       ELSE pc' = "query" /\ UNCHANGED <<result, ui>>
    /\ UNCHANGED <<artifacts, pos, cur_df, dataset_summaries, reports, previews,
                   full_datasets, analysis_plan, files, index, loaded, sent,
                   gsql, gout, call, ret>>

\* the verdict of the gate inside run_sql_select
SelectGate(sql) == enforce_select_only(sql)

\* df = run_sql_select(engine, sql); full_datasets[art.dataset_name] = df
\* run_sql_select: enforce_select_only(sql); q = sql.strip().rstrip(";");
\* engine.connect() may fail before anything is sent, the source may fail
\* (the error of the source carries the statement)
Query ==
    /\ pc = "query"
    /\ LET sql == strip(artifacts[pos].sql)
           q   == rstrip_semi(strip(sql))
           verdict == SelectGate(sql)
           ans == read_sql_query(q)
       IN  IF verdict = "raise"
           THEN /\ Raise("ValueError", <<Text(MSG_blocked)>>)
                /\ UNCHANGED <<cur_df, full_datasets, sent>>
           ELSE \/ /\ Raise("OperationalError", <<Text(MSG_query)>>)
                   /\ UNCHANGED <<cur_df, full_datasets, sent>>
                \/ /\ sent' = Sent(sql, q, verdict)
                   /\ Raise("ProgrammingError", <<Text(MSG_query), Formatted("sql", q)>>)
                   /\ UNCHANGED <<cur_df, full_datasets>>
                \/ /\ ans.ok
                   /\ sent' = Sent(sql, q, verdict)
                   /\ cur_df' = Some(ans.df)
                   /\ full_datasets' = DictPut(full_datasets, artifacts[pos].dataset_name, ans.df)
                   /\ pc' = "write"
                   /\ UNCHANGED <<result, ui>>
    /\ UNCHANGED <<artifacts, pos, dataset_summaries, reports, previews,
                   analysis_plan, files, index, loaded, gsql, gout, call, ret>>

\* cache_df with its two steps in the other order: the index row first
IndexBeforeFile ==
    /\ pc = "write"
    /\ index' = Upsert(index, CacheKeyOf(artifacts[pos]),
                       ParquetPath(CacheKeyOf(artifacts[pos])))
    /\ pc' = "index"
    /\ UNCHANGED <<artifacts, pos, cur_df, dataset_summaries, reports, previews,
                   full_datasets, analysis_plan, result, ui, files, loaded, sent,
                   gsql, gout, call, ret>>

\* mem.cache_df, first half: parquet_dir.mkdir(...); df.to_parquet(parquet_path)
\* succeeds, fails before the file is touched, or fails leaving a partial file
WriteFile ==
    /\ pc = "write"
    /\ LET path == ParquetPath(CacheKeyOf(artifacts[pos]))
       IN  \/ /\ files' = WriteAt(files, path, ParquetFile(cur_df[1]))
              /\ pc' = "index"
              /\ UNCHANGED <<result, ui>>
           \/ /\ Raise("OSError", <<Text(MSG_parquet)>>)
              /\ UNCHANGED files
           \/ /\ files' = WriteAt(files, path, PartialFile)
              /\ Raise("OSError", <<Text(MSG_parquet)>>)
    /\ UNCHANGED <<artifacts, pos, cur_df, dataset_summaries, reports, previews,
                   full_datasets, analysis_plan, index, loaded, sent, gsql, gout, call, ret>>

\* mem.cache_df, second half: duckdb.connect; INSERT OR REPLACE; close
UpsertIndex ==
    /\ pc = "index"
    /\ LET key == CacheKeyOf(artifacts[pos])
       IN  \/ /\ index' = Upsert(index, key, ParquetPath(key))
              /\ pc' = "summarize"
              /\ UNCHANGED <<result, ui>>
           \/ /\ Raise("duckdb.Error", <<Text(MSG_duckdb)>>)
              /\ UNCHANGED index
    /\ UNCHANGED <<artifacts, pos, cur_df, dataset_summaries, reports, previews,
                   full_datasets, analysis_plan, files, loaded, sent, gsql, gout, call, ret>>

\* reports kept by dataset name, as previews and full_datasets are
PutReportByName(reps, report) ==
    IF \E j \in 1..Len(reps) : reps[j].dataset_name = report.dataset_name
    THEN [j \in 1..Len(reps) |->
            IF reps[j].dataset_name = report.dataset_name THEN report ELSE reps[j]]
    ELSE Append(reps, report)

\* reports.append(KPIReport(...))
AppendReport(reps, report) == Append(reps, report)

\* the rest of the loop body: column classes, DatasetSummary, generic KPIs,
\* KPIReport, preview; then the next artifact
Summarize ==
    /\ pc = "summarize"
    /\ LET art == artifacts[pos]
           key == CacheKeyOf(art)
       IN  /\ dataset_summaries' =
                Append(dataset_summaries, DatasetSummary(art, key, ParquetPath(key), cur_df[1]))
           /\ reports' = AppendReport(reports, KPIReport(art, cur_df[1]))
           /\ previews' = DictPut(previews, art.dataset_name, HeadRows(cur_df[1], max_rows_preview))
    /\ cur_df' = None
    /\ pos' = pos + 1
    /\ pc' = IF pos = Len(artifacts) THEN "plan" ELSE "gate"
    /\ UNCHANGED <<artifacts, full_datasets, analysis_plan, result, ui, files,
                   index, loaded, sent, gsql, gout, call, ret>>

\* kc.name [kc.name]: str.__getitem__ with a str argument raises TypeError
StrGetItem(text, key) ==
    [ok |-> FALSE, value |-> <<>>, exc |-> "string indices must be integers, not 'str'"]

\* the name argument of KPIValue(...) in the merge loop
MergedKpiName(kc) == StrGetItem(kc.name, kc.name)

\* report_by_name.get(ds_name): the last report of that name, 0 for none
ReportIndex(reps, ds_name) ==
    IF \E j \in 1..Len(reps) : reps[j].dataset_name = ds_name
    THEN CHOOSE j \in 1..Len(reps) :
            /\ reps[j].dataset_name = ds_name
            /\ \A m \in (j + 1)..Len(reps) : reps[m].dataset_name # ds_name
    ELSE 0

\* for kc in computed_list: r.kpis.append(KPIValue(name=..., value=..., note=...))
RECURSIVE MergeList(_, _, _)
MergeList(reps, r, list) ==
    IF list = <<>> THEN [ok |-> TRUE, reports |-> reps, exc |-> ""]
    ELSE LET kc == Head(list)
             nm == MergedKpiName(kc)
         IN  IF ~nm.ok THEN [ok |-> FALSE, reports |-> reps, exc |-> nm.exc]
             ELSE MergeList(
                    [reps EXCEPT ![r].kpis = Append(@, KPIValue(nm.value, kc.value, kc.note))],
                    r, Tail(list))

\* for ds_name, computed_list in computed_map.items(): ...
RECURSIVE MergeMap(_, _)
MergeMap(reps, map) ==
    IF map = <<>> THEN [ok |-> TRUE, reports |-> reps, exc |-> ""]
    ELSE LET r == ReportIndex(reps, Head(map).name)
         IN  IF r = 0 THEN MergeMap(reps, Tail(map))
             ELSE LET one == MergeList(reps, r, Head(map).list)
                  IN  IF ~one.ok THEN one ELSE MergeMap(one.reports, Tail(map))

RISK_plan_failed == "Planner-driven KPI computation failed"

\* for r in reports: r.risks.append(f"Planner-driven KPI computation failed: {e}")
AddRiskNowhere(reps, exc) == reps

AddRiskToAll(reps, exc) ==
    [j \in 1..Len(reps) |->
        [reps[j] EXCEPT !.risks = Append(@, [kind |-> RISK_plan_failed, msg |-> exc])]]

\* "if analysis_plan:" is false for None and for the empty dict
PlanGiven(plan) == plan # None /\ ~plan[1].empty

\* the planner-driven KPI merge: the reports as they are when the call returns
PlanMergedReports(reps, plan, datasets) ==
    IF ~PlanGiven(plan) THEN reps
    ELSE LET c == compute_kpis_from_plan(plan[1], datasets)
         IN  IF ~c.ok THEN AddRiskToAll(reps, c.exc)
             ELSE LET m == MergeMap(reps, c.map)
                  IN  IF m.ok THEN m.reports ELSE AddRiskToAll(m.reports, m.exc)

\* after the loop: the merge, ExecutionBundle(...), return; app.py keeps the
\* bundle in st.session_state.execution_bundle
PlanMerge ==
    /\ pc = "plan"
    /\ \E plan \in Plans :
         /\ analysis_plan' = plan
         /\ reports' = PlanMergedReports(reports, plan, full_datasets)
    /\ result' = Returned(dataset_summaries, reports')
    /\ ui' = [ui EXCEPT !.execution_bundle =
                 Some([datasets |-> dataset_summaries, reports |-> reports'])]
    /\ pc' = "returned"
    /\ UNCHANGED <<artifacts, pos, cur_df, dataset_summaries, previews,
                   full_datasets, files, index, loaded, sent, gsql, gout, call, ret>>

\* the process stops inside the call: what is in memory is gone, what is on
\* disk stays (artifacts and pos are kept to tell where it stopped)
Crash ==
    /\ pc \in Running
    /\ pc' = "crashed"
    /\ cur_df' = None
    /\ dataset_summaries' = <<>>
    /\ reports' = <<>>
    /\ previews' = <<>>
    /\ full_datasets' = <<>>
    /\ UNCHANGED <<artifacts, pos, analysis_plan, result, ui, files, index,
                   loaded, sent, gsql, gout, call, ret>>

\* the "Execute Task-4 SQL" button is pressed again after a run that returned:
\* the same artifacts, the same store, st.session_state as the run left it
Rerun ==
    /\ pc = "returned"
    /\ pos' = 1
    /\ pc' = IF artifacts = <<>> THEN "plan" ELSE "gate"
    /\ cur_df' = None
    /\ dataset_summaries' = <<>>
    /\ reports' = <<>>
    /\ previews' = <<>>
    /\ full_datasets' = <<>>
    /\ analysis_plan' = None
    /\ result' = NoResult
    /\ UNCHANGED <<artifacts, ui, files, index, loaded, sent, gsql, gout, call, ret>>

(***************************************************************************)
(* memory_store.py: reads of the cache after the run                       *)
(***************************************************************************)
LoadKeys ==
    {"k1", "k9"} \cup {_mk_cache_key(cache_prefix, strip(q)) : q \in SqlTexts}

LoadCached ==
    /\ pc \in Ended
    /\ \E key \in LoadKeys : loaded' = load_cached_df(key)
    /\ UNCHANGED <<runVars, files, index, sent, gsql, gout, call, ret>>

\* outside the program: a parquet file is deleted from the cache directory
RemoveFile ==
    /\ pc \in Ended
    /\ \E path \in DOMAIN files :
         files' = [f \in DOMAIN files \ {path} |-> files[f]]
    /\ UNCHANGED <<runVars, index, loaded, sent, gsql, gout, call, ret>>

(***************************************************************************)
(* db.py: run_sql, used by list_tables, get_columns, get_row_count and     *)
(* sample_table during the DB scan, before the run                         *)
(***************************************************************************)
RECURSIVE IntText(_)
IntText(n) ==
    LET digit(d) == CASE d = 0 -> "0" [] d = 1 -> "1" [] d = 2 -> "2" [] d = 3 -> "3"
                      [] d = 4 -> "4" [] d = 5 -> "5" [] d = 6 -> "6" [] d = 7 -> "7"
                      [] d = 8 -> "8" [] d = 9 -> "9"
    IN  IF n < 10 THEN <<digit(n)>> ELSE IntText(n \div 10) \o <<digit(n % 10)>>

sample_n == 100

\* f"SELECT TOP {int(limit)} * FROM ({q}) AS __q"
TopWrap(q, limit) ==
    <<"S","E","L","E","C","T"," ","T","O","P"," ">> \o IntText(limit)
    \o <<" ","*"," ","F","R","O","M"," ","(">> \o q
    \o <<")"," ","A","S"," ","_","_","q">>

\* the verdict of the gate inside run_sql
RunSqlGateSkipped(sql) == "skipped"
RunSqlGate(sql) == enforce_select_only(sql)

\* run_sql(engine, sql, params, limit): the gate, then the statement is sent
\* (unless the connection fails)
RunSql ==
    /\ pc = "idle"
    /\ \E sql \in SqlTexts, limit \in {None, Some(sample_n)}, connected \in BOOLEAN :
         LET verdict == RunSqlGate(sql)
             q0 == rstrip_semi(strip(sql))
             q  == IF limit # None THEN TopWrap(q0, limit[1]) ELSE q0
         IN  sent' = IF verdict = "raise" \/ ~connected THEN sent
                     ELSE Sent(sql, q, verdict)
    /\ UNCHANGED <<runVars, files, index, loaded, gsql, gout, call, ret>>

(***************************************************************************)
(* Inputs of the gate: texts built from at most MaxFrags fragments, as     *)
(* written, in lower case, or in mixed case                                *)
(***************************************************************************)
MaxFrags == 3

Frags ==
    { KW_SELECT, <<"W","I","T","H"," ","c"," ","A","S"," ","(","x",")">>,
      <<" ">>, <<";">>, <<"x">>, <<"_">>, <<"(">>, <<")">> }
    \cup { FORBIDDEN[n] : n \in 1..Len(FORBIDDEN) }

FragSeqs(n) == [1..n -> Frags]

Casings == {"asis", "lower", "mixed"}

Recase(s, mode) ==
    [j \in 1..Len(s) |->
        CASE mode = "lower" -> Unfold(s[j])
          [] mode = "mixed" -> IF j % 2 = 0 THEN Unfold(s[j]) ELSE s[j]
          [] OTHER -> s[j]]

GateInput(fs, m) == Recase(ConcatAll(fs), m)

\* one call of enforce_select_only(gsql)
Enforce ==
    /\ gout = "none"
    /\ gout' = enforce_select_only(gsql)
    /\ UNCHANGED <<gsql, runVars, files, index, loaded, sent, call, ret>>

(***************************************************************************)
(* Inputs of _infer_column_types: frames of at most MaxRows rows and       *)
(* MaxCols columns; an object column holds texts that parse as dates in    *)
(* its first rows and, in the other rows, texts that do not, or nothing    *)
(***************************************************************************)
MaxRows == 5
MaxCols == 2

InferNames == << <<"a">>, <<"b">>, <<"c">>, <<"d">>, <<"e">> >>

ObjectValues(n, dates, rest) == [j \in 1..n |-> IF j <= dates THEN Date(j) ELSE rest]

\* the dtypes and values a column of n rows is drawn from
ColumnKinds(n) ==
    { [dtype |-> "int64", vals |-> [j \in 1..n |-> Num(j)]],
      [dtype |-> "datetime64", vals |-> [j \in 1..n |-> Date(j)]],
      [dtype |-> "category", vals |-> [j \in 1..n |-> Txt(j)]] }
    \cup { [dtype |-> "object", vals |-> ObjectValues(n, d, rest)] :
              d \in 0..n, rest \in {Txt(1), NA} }

InferFrame(n, ks) ==
    DataFrame(n, [j \in 1..Len(ks) |-> Column(InferNames[j], ks[j].dtype, ks[j].vals)])

\* one call of _infer_column_types(call.df)
Infer ==
    /\ call.fn = "_infer_column_types"
    /\ ret.fn = "none"
    /\ ret' = [fn |-> call.fn, types |-> _infer_column_types(call.df)]
    /\ UNCHANGED <<call, gsql, gout, runVars, files, index, loaded, sent>>

(***************************************************************************)
(* Inputs of compute_kpis_from_plan: a plan of at most MaxKpis KPIs, each  *)
(* a mapping, and an ordered dict of frames.  The frames have distinct     *)
(* column names, as every frame of full_datasets has: it was written to    *)
(* parquet before.  No hint below names a datetime64 column.               *)
(***************************************************************************)
MaxKpis == 2

c_points == <<"p","o","i","n","t","s">>

D_users ==
    DataFrame(4, << Column(c_user_id, "int64", <<Num(1), Num(1), Num(2), Num(3)>>),
                    Column(c_tier, "object", <<Txt(3), NA, Txt(3), Txt(4)>>),
                    Column(c_points, "object", <<Num(5), Txt(1), NA, Num(7)>>) >>)

\* no row
D_empty == DataFrame(0, << Column(c_amount, "object", <<>>) >>)

\* no column for any id or money keyword
D_regions == DataFrame(2, << Column(c_region, "object", <<Txt(1), Txt(2)>>) >>)

\* two columns for the id keywords, none for the money keywords
c_user_name == <<"u","s","e","r","_","n","a","m","e">>
c_userid == <<"u","s","e","r","i","d">>

D_accounts ==
    DataFrame(3, << Column(c_user_name, "object", <<Txt(1), Txt(2), Txt(2)>>),
                    Column(c_userid, "int64", <<Num(7), Num(8), Num(9)>>) >>)

Dataset(name, df) == [name |-> name, df |-> df]

KpiDatasets ==
    { <<>>,
      <<Dataset("sales", T_sales)>>,
      <<Dataset("users", D_users)>>,
      <<Dataset("empty", D_empty)>>,
      <<Dataset("regions", D_regions)>>,
      <<Dataset("members", T_users)>>,
      <<Dataset("accounts", D_accounts)>>,
      <<Dataset("sales", T_sales), Dataset("users", D_users)>>,
      <<Dataset("users", D_users), Dataset("sales", T_sales)>>,
      <<Dataset("empty", D_empty), Dataset("regions", D_regions)>> }

K_total_revenue == KPI(<<"T","o","t","a","l"," ","R","e","v","e","n","u","e">>, <<>>, None)
K_revenue == KPI(<<"R","e","v","e","n","u","e">>, <<>>, None)
K_active_users == KPI(<<"A","c","t","i","v","e"," ","U","s","e","r","s">>, <<>>, None)
K_churn == KPI(<<"C","h","u","r","n">>, <<"n","u","m","b","e","r"," ","o","f"," ","m","e","m","b","e","r","s"," ","l","o","s","t">>, None)
K_blank == KPI(<<>>, <<>>, None)
K_rows == KPI(<<>>, <<" ">>, Some(<<"c","o","u","n","t","_","r","o","w","s","(",")">>))
K_rows_upper == KPI(<<"R","o","w","s">>, <<>>, Some(<<"C","O","U","N","T","_","R","O","W","S","(",")">>))
K_sales == KPI(<<"S","a","l","e","s">>, <<>>, Some(<<"s","u","m","(","a","m","o","u","n","t",")">>))
K_users == KPI(<<"U","s","e","r","s">>, <<>>, Some(<<"c","o","u","n","t","_","d","i","s","t","i","n","c","t","(","u","s","e","r","_","i","d",")">>))
K_avg == KPI(<<"M","e","a","n">>, <<>>, Some(<<" "," ","A","V","G","("," ","'","a","m","o","u","n","t","'"," ",")"," ">>))
K_p95 == KPI(<<"S","p","r","e","a","d">>, <<>>, Some(<<"p","9","5","(","a","m","o","u","n","t",")">>))
K_no_call == KPI(<<"P","l","a","i","n">>, <<>>, Some(<<"s","u","m"," ","a","m","o","u","n","t">>))
K_blank_hint == KPI(<<"P","o","i","n","t","s">>, <<>>, Some(<<" "," "," ">>))
K_text_column == KPI(<<"R","e","g","i","o","n","s">>, <<>>, Some(<<"s","u","m","(","r","e","g","i","o","n",")">>))
K_absent_column == KPI(<<"G","h","o","s","t">>, <<>>, Some(<<"m","a","x","(","m","i","s","s","i","n","g",")">>))
K_absent_distinct == KPI(<<"G","h","o","s","t","s">>, <<>>, Some(<<"c","o","u","n","t","_","d","i","s","t","i","n","c","t","(","m","i","s","s","i","n","g",")">>))

KpiPool ==
    { K_total_revenue, K_revenue, K_active_users, K_churn,
      K_blank, K_rows, K_rows_upper, K_sales,
      K_users, K_avg, K_p95, K_no_call,
      K_blank_hint, K_text_column, K_absent_column, K_absent_distinct }

\* one call of compute_kpis_from_plan(call.plan, call.datasets)
ComputeKpis ==
    /\ call.fn = "compute_kpis_from_plan"
    /\ ret.fn = "none"
    /\ ret' = [fn |-> call.fn, out |-> compute_kpis_from_plan(call.plan, call.datasets)]
    /\ UNCHANGED <<call, gsql, gout, runVars, files, index, loaded, sent>>

(***************************************************************************)
(* Two calls of cache_df in flight on one store, each at its own step:     *)
(* the file write (to_parquet), then the index upsert.  A step is taken    *)
(* whole; either step may raise.                                           *)
(***************************************************************************)
PutKeys == {"k1", "k2"}
PutFrames == {T_sales, D_users}

Put(key, df, at) == [key |-> key, df |-> df, pc |-> at]

\* call with the put of process p moved to position at
PutAt(p, at) == [call EXCEPT !.puts[p].pc = at]

\* df.to_parquet(parquet_path, index=False) of process p
PutWriteFile ==
    /\ call.fn = "cache_df"
    /\ \E p \in 1..Len(call.puts) :
          /\ call.puts[p].pc = "write"
          /\ \/ /\ files' = WriteAt(files, ParquetPath(call.puts[p].key),
                                     ParquetFile(call.puts[p].df))
                /\ call' = PutAt(p, "index")
             \/ /\ call' = PutAt(p, "raised")
                /\ UNCHANGED files
    /\ UNCHANGED <<ret, gsql, gout, runVars, index, loaded, sent>>

\* duckdb.connect; INSERT OR REPLACE; close, of process p
PutUpsertIndex ==
    /\ call.fn = "cache_df"
    /\ \E p \in 1..Len(call.puts) :
          /\ call.puts[p].pc = "index"
          /\ \/ /\ index' = Upsert(index, call.puts[p].key,
                                    ParquetPath(call.puts[p].key))
                /\ call' = PutAt(p, "done")
             \/ /\ call' = PutAt(p, "raised")
                /\ UNCHANGED index
    /\ UNCHANGED <<ret, gsql, gout, runVars, files, loaded, sent>>

(***************************************************************************)
(* Specifications                                                          *)
(***************************************************************************)
Init ==
    /\ gsql = <<>>
    /\ gout = "none"
    /\ InitRun
    /\ call = NoCall
    /\ ret = NoCall

Next ==
    \/ RunSql
    \/ Begin
    \/ Gate
    \/ Query
    \/ WriteFile
    \/ UpsertIndex
    \/ Summarize
    \/ PlanMerge
    \/ Crash
    \/ LoadCached

\* one run of the engine over a fresh cache directory
Spec == Init /\ [][Next]_vars

NextEnv == Next \/ RemoveFile

\* the same, with parquet files deleted from outside after the run
SpecEnv == Init /\ [][NextEnv]_vars

NextRerun ==
    \/ Begin
    \/ Gate
    \/ Query
    \/ WriteFile
    \/ UpsertIndex
    \/ Summarize
    \/ PlanMerge
    \/ Crash
    \/ Rerun

\* runs of the engine repeated over the same artifacts and the same store
SpecRerun == Init /\ [][NextRerun]_vars

InitInfer ==
    /\ gsql = <<>>
    /\ gout = "none"
    /\ InitRun
    /\ \E n \in 0..MaxRows : \E m \in 0..MaxCols : \E ks \in [1..m -> ColumnKinds(n)] :
          call = [fn |-> "_infer_column_types", df |-> InferFrame(n, ks)]
    /\ ret = NoCall

NextInfer == Infer

\* _infer_column_types alone, over the frames of InferFrames
SpecInfer == InitInfer /\ [][NextInfer]_vars

InitKpi ==
    /\ gsql = <<>>
    /\ gout = "none"
    /\ InitRun
    /\ \E m \in 0..MaxKpis : \E ks \in [1..m -> KpiPool] : \E ds \in KpiDatasets :
          call = [fn |-> "compute_kpis_from_plan", plan |-> Plan(ks), datasets |-> ds]
    /\ ret = NoCall

NextKpi == ComputeKpis

\* compute_kpis_from_plan alone, over the plans and datasets above
SpecKpi == InitKpi /\ [][NextKpi]_vars

InitPut ==
    /\ gsql = <<>>
    /\ gout = "none"
    /\ InitRun
    /\ \E k1 \in PutKeys, k2 \in PutKeys, d1 \in PutFrames, d2 \in PutFrames :
          call = [fn |-> "cache_df",
                  puts |-> <<Put(k1, d1, "write"), Put(k2, d2, "write")>>]
    /\ ret = NoCall

NextPut == PutWriteFile \/ PutUpsertIndex

\* two cache_df calls on one store, interleaved step by step
SpecPut == InitPut /\ [][NextPut]_vars

InitGate ==
    /\ \E n \in 0..MaxFrags : \E fs \in FragSeqs(n), m \in Casings :
          gsql = GateInput(fs, m)
    /\ gout = "none"
    /\ InitRun
    /\ call = NoCall
    /\ ret = NoCall

NextGate == Enforce

\* the safety gate alone, over the texts GateInput builds
SpecGate == InitGate /\ [][NextGate]_vars

(***************************************************************************)
(* Properties                                                              *)
(***************************************************************************)
\* what a run over the artifacts computes before the plan is looked at
FrameOf(art) == read_sql_query(rstrip_semi(strip(strip(art.sql)))).df

GenericReport(art) == KPIReport(art, FrameOf(art))

GenericSummary(art) ==
    DatasetSummary(art, CacheKeyOf(art), ParquetPath(CacheKeyOf(art)), FrameOf(art))

GenericReports == [j \in 1..Len(artifacts) |-> GenericReport(artifacts[j])]

Rejected(art) == ~is_select_only(strip(art.sql))

PlanFailureNotes(report) ==
    {r \in 1..Len(report.risks) : report.risks[r].kind = RISK_plan_failed}

\* C1: a statement is sent to the external source only after the safety gate
\* was called on its text and accepted it; no text the gate rejects is sent.
C1_GateBeforeExecution ==
    sent.sent => sent.gate = "accept" /\ is_select_only(sent.src)

\* a statement of an artifact was sent and answered inside a run
C1_Witness ==
    /\ pc = "write"
    /\ sent.sent
    /\ sent.gate = "accept"
    /\ sent.src = strip(artifacts[pos].sql)

\* a forbidden keyword stands in s as a whole word, in any letter case
ContainsForbiddenWord(s) ==
    \E n \in 1..Len(FORBIDDEN), p \in 1..Len(s) :
        /\ p + Len(FORBIDDEN[n]) - 1 <= Len(s)
        /\ \A j \in 1..Len(FORBIDDEN[n]) :
              \/ s[p + j - 1] = FORBIDDEN[n][j]
              \/ s[p + j - 1] = Unfold(FORBIDDEN[n][j])
        /\ (p = 1 \/ ~IsWordChar(s[p - 1]))
        /\ (p + Len(FORBIDDEN[n]) > Len(s) \/ ~IsWordChar(s[p + Len(FORBIDDEN[n])]))

\* C2: every text that contains one of the twelve forbidden keywords as a
\* whole word, in any letter case and at any position, makes is_select_only
\* false and enforce_select_only raise, with or without a SELECT prefix.
C2_ForbiddenKeywordRejected ==
    (gout # "none" /\ ContainsForbiddenWord(gsql))
        => (gout = "raise" /\ ~is_select_only(gsql))

\* a text that starts with SELECT and holds a forbidden keyword in lower
\* case was rejected
C2_Witness ==
    /\ gout = "raise"
    /\ SelectPrefix(strip_semi(strip(gsql)))
    /\ ContainsForbiddenWord(gsql)
    /\ ~(\E n \in 1..Len(FORBIDDEN) : SearchWordExact(gsql, FORBIDDEN[n]))

\* a ";" with statement text on both sides of it
MultiStatement(s) ==
    \E p \in 1..Len(s) :
        /\ s[p] = ";"
        /\ \E a \in 1..(p - 1) : ~IsSpace(s[a]) /\ s[a] # ";"
        /\ \E b \in (p + 1)..Len(s) : ~IsSpace(s[b]) /\ s[b] # ";"

\* C3: the gate rejects every text that holds more than one statement, also
\* when the second statement uses no forbidden keyword.
C3_MultiStatementRejected ==
    (gout # "none" /\ MultiStatement(gsql)) => gout = "raise"

QueryOrCacheErrors == {"OperationalError", "ProgrammingError", "OSError", "duckdb.Error"}

AcceptedArtifacts == SelectSeq(artifacts, LAMBDA a : ~Rejected(a))

\* C4: a run with an artifact the gate rejects (and no other failure) still
\* returns a bundle with a summary and a report for every accepted artifact,
\* in order, without the rejected one, and the rejection is reported.
C4_GateRejectionSparesSiblings ==
    ( /\ pc \in {"returned", "raised"}
      /\ \E j \in 1..Len(artifacts) : Rejected(artifacts[j])
      /\ \E j \in 1..Len(artifacts) : ~Rejected(artifacts[j])
      /\ result.type \notin QueryOrCacheErrors )
    => /\ result.kind = "returned"
       /\ Len(result.datasets) = Len(AcceptedArtifacts)
       /\ Len(result.reports) = Len(AcceptedArtifacts)
       /\ \A j \in 1..Len(AcceptedArtifacts) :
             /\ result.datasets[j].dataset_name = AcceptedArtifacts[j].dataset_name
             /\ result.reports[j].dataset_name = AcceptedArtifacts[j].dataset_name
       /\ ui.error # None

\* C5: when the query or the cache write fails for one artifact of a run whose
\* artifacts all pass the gate, the run still returns a bundle with the other
\* artifacts, and the error is reported.
C5_FailedArtifactSkipped ==
    ( /\ pc \in {"returned", "raised"}
      /\ Len(artifacts) >= 2
      /\ \A j \in 1..Len(artifacts) : ~Rejected(artifacts[j])
      /\ result.type \in QueryOrCacheErrors )
    => /\ result.kind = "returned"
       /\ Len(result.datasets) = Len(artifacts) - 1
       /\ Len(result.reports) = Len(artifacts) - 1
       /\ ui.error # None

\* the plan-driven KPIValues of one dataset, in plan order
PlanDrivenKpis(plan, art) ==
    [n \in 1..Len(plan.kpis) |->
        Bind(PlanKpi(plan.kpis[n], FrameOf(art))[1], LAMBDA kc :
            KPIValue(kc.name, kc.value, kc.note))]

\* C6: with a plan of at least one KPI whose computation does not fail, every
\* report's kpis are the generic KPIs followed by one plan-driven KPIValue
\* per plan KPI in plan order (for sum(amount): the sum of amount), and no
\* report gets a plan-failure risk note.
C6_PlanKpisFollowGenericKpis ==
    ( /\ pc = "returned"
      /\ PlanGiven(analysis_plan)
      /\ Len(analysis_plan[1].kpis) >= 1
      /\ compute_kpis_from_plan(analysis_plan[1], full_datasets).ok )
    => \A j \in 1..Len(result.reports) :
          /\ result.reports[j].kpis =
                GenericReport(artifacts[j]).kpis
                \o PlanDrivenKpis(analysis_plan[1], artifacts[j])
          /\ PlanFailureNotes(result.reports[j]) = {}

\* the plan-driven computation or its merge raised in the run that returned
PlanRaised ==
    /\ pc = "returned"
    /\ PlanGiven(analysis_plan)
    /\ Bind(compute_kpis_from_plan(analysis_plan[1], full_datasets), LAMBDA c :
           ~c.ok \/ ~MergeMap(GenericReports, c.map).ok)

\* C7: when the plan-driven computation or its merge raises, the run still
\* returns a complete bundle: every report keeps exactly its generic KPIs and
\* highlights, every summary is unchanged, and every report gets exactly one
\* risk note about the failure, after its generic risks.
C7_PlanFailureKeepsBundle ==
    PlanRaised =>
        /\ result.kind = "returned"
        /\ ui.execution_bundle =
              Some([datasets |-> result.datasets, reports |-> result.reports])
        /\ result.datasets = [j \in 1..Len(artifacts) |-> GenericSummary(artifacts[j])]
        /\ Len(result.reports) = Len(artifacts)
        /\ \A j \in 1..Len(artifacts) :
              /\ result.reports[j].kpis = GenericReports[j].kpis
              /\ result.reports[j].highlights = GenericReports[j].highlights
              /\ Len(result.reports[j].risks) = Len(GenericReports[j].risks) + 1
              /\ Take(result.reports[j].risks, Len(GenericReports[j].risks))
                    = GenericReports[j].risks
              /\ PlanFailureNotes(result.reports[j]) = {Len(result.reports[j].risks)}

\* two datasets returned, the merge raised for the first one's KPI
C7_Witness ==
    /\ PlanRaised
    /\ Len(artifacts) = 2
    /\ artifacts[1].dataset_name # artifacts[2].dataset_name
    /\ compute_kpis_from_plan(analysis_plan[1], full_datasets).ok

\* C8: a returned bundle over artifacts a_1..a_n has n summaries and n
\* reports, and the i-th summary and the i-th report carry the dataset_name
\* of a_i.
C8_BundleFollowsArtifacts ==
    result.kind = "returned" =>
        /\ Len(result.datasets) = Len(artifacts)
        /\ Len(result.reports) = Len(artifacts)
        /\ \A j \in 1..Len(artifacts) :
              /\ result.datasets[j].dataset_name = artifacts[j].dataset_name
              /\ result.reports[j].dataset_name = artifacts[j].dataset_name

\* a bundle over two artifacts of the same dataset name
C8_Witness ==
    /\ result.kind = "returned"
    /\ Len(artifacts) = 2
    /\ artifacts[1].dataset_name = artifacts[2].dataset_name
    /\ artifacts[1].sql # artifacts[2].sql

IndexRowsNameFiles == \A j \in 1..Len(index) : FileExists(index[j].parquet_path)

\* a step that ends cache_df by a failure or a crash
PutInterrupted == pc \in {"write", "index"} /\ pc' \in {"raised", "crashed"}

\* C9: in every reachable state, also after a failure or a crash between the
\* two steps of cache_df, every index row names a file that exists; a failed
\* or interrupted put leaves the index unchanged.
C9_IndexRowsNameFiles ==
    /\ []IndexRowsNameFiles
    /\ [][PutInterrupted => index' = index]_vars

\* the second artifact's file is written, its index row is not: the upsert
\* failed or the process stopped before it
C9_Witness ==
    /\ pc \in {"raised", "crashed"}
    /\ pos = 2
    /\ Len(artifacts) = 2
    /\ result.type \in {"duckdb.Error", ""}
    /\ index # <<>>
    /\ CacheKeyOf(artifacts[pos]) \notin IndexKeys(index)
    /\ FileExists(ParquetPath(CacheKeyOf(artifacts[pos])))

\* C10: load_cached_df of a key whose index row names a missing file returns
\* absent, as for an unknown key, and raises nothing.
C10_MissingFileIsAbsent ==
    [][ ( /\ loaded' # loaded
          /\ RowsOf(index, loaded'.key) # <<>>
          /\ ~FileExists(RowsOf(index, loaded'.key)[1].parquet_path) )
        => loaded'.kind = "absent" ]_vars

\* C11: after any sequence of cache_df calls the index holds at most one row
\* per cache key, each row holds the location cache_df writes for its key, and
\* a cache_df call sets the row of its key and leaves the other rows as they
\* were.
C11_OneRowPerKey ==
    /\ [](\A i, j \in 1..Len(index) :
             /\ index[i].cache_key = index[j].cache_key => i = j
             /\ index[j].parquet_path = ParquetPath(index[j].cache_key))
    /\ [][index' # index =>
            /\ RowsOf(index', CacheKeyOf(artifacts[pos]))
                  = <<Row(CacheKeyOf(artifacts[pos]),
                          ParquetPath(CacheKeyOf(artifacts[pos])))>>
            /\ IndexKeys(index') = IndexKeys(index) \cup {CacheKeyOf(artifacts[pos])}
            /\ \A k \in IndexKeys(index) \ {CacheKeyOf(artifacts[pos])} :
                  RowsOf(index', k) = RowsOf(index, k)]_vars

\* the second artifact was cached under the key of the first one
C11_Witness ==
    /\ pc = "summarize"
    /\ pos = 2
    /\ CacheKeyOf(artifacts[1]) = CacheKeyOf(artifacts[2])
    /\ artifacts[1].sql # artifacts[2].sql
    /\ Len(index) = 1

\* the artifacts of the run that were cached under key
PutsOf(key) == {j \in 1..Len(artifacts) : CacheKeyOf(artifacts[j]) = key}

\* C12: after cache_df(k, d), with cache_df calls on other keys in between,
\* load_cached_df(k) returns data equal to d (the last d written under k);
\* load_cached_df of a key never put returns absent.
C12_PutThenGet ==
    [][ (loaded' # loaded /\ pc = "returned") =>
          IF PutsOf(loaded'.key) = {}
          THEN loaded'.kind = "absent"
          ELSE /\ loaded'.kind = "data"
               /\ loaded'.df = FrameOf(artifacts[SetMax(PutsOf(loaded'.key))]) ]_vars

\* the first artifact's data was read back after another key was written
C12_Witness ==
    /\ pc = "returned"
    /\ Len(artifacts) = 2
    /\ loaded.kind = "data"
    /\ loaded.key = CacheKeyOf(artifacts[1])
    /\ loaded.key # CacheKeyOf(artifacts[2])
    /\ FrameOf(artifacts[1]) # FrameOf(artifacts[2])
    /\ loaded.df = FrameOf(artifacts[1])

\* the keys the bundle of the last returned run lists
BundleKeys ==
    {ui.execution_bundle[1].datasets[j].cache_key :
        j \in 1..Len(ui.execution_bundle[1].datasets)}

\* C13: the derived key depends on the prefix and the SQL text only, so while
\* and after the same artifact list is run again against the same store, the
\* index holds the keys of the first run and no other, and the number of
\* files is the one the first run left.
C13_RerunAddsNothing ==
    ui.execution_bundle # None =>
        /\ IndexKeys(index) = BundleKeys
        /\ Len(index) = Cardinality(BundleKeys)
        /\ Cardinality(DOMAIN files) = Cardinality(BundleKeys)

\* the second run has cached both artifacts again, the first one under a
\* derived key
C13_Witness ==
    /\ ui.execution_bundle # None
    /\ pc = "plan"
    /\ Len(artifacts) = 2
    /\ artifacts[1].cache_key = NoKey
    /\ CacheKeyOf(artifacts[1]) # CacheKeyOf(artifacts[2])

SeqSet(q) == {q[j] : j \in 1..Len(q)}

\* C14: the three lists _infer_column_types returns are pairwise disjoint,
\* none names a column twice, and together they name exactly the columns of
\* the frame, also when the second pass moves columns to time.
C14_ColumnClassesPartition ==
    ret.fn = "_infer_column_types" =>
        /\ SeqSet(ret.types.time) \cap SeqSet(ret.types.num) = {}
        /\ SeqSet(ret.types.time) \cap SeqSet(ret.types.cat) = {}
        /\ SeqSet(ret.types.num) \cap SeqSet(ret.types.cat) = {}
        /\ SeqSet(ret.types.time) \cup SeqSet(ret.types.num) \cup SeqSet(ret.types.cat)
              = SeqSet(ColumnNames(call.df))
        /\ Len(ret.types.time) + Len(ret.types.num) + Len(ret.types.cat)
              = Len(call.df.cols)

\* a frame of two object columns: one moved to time, one stayed categorical
C14_Witness ==
    /\ ret.fn = "_infer_column_types"
    /\ Len(call.df.cols) = 2
    /\ \A j \in 1..2 : call.df.cols[j].dtype = "object"
    /\ Len(ret.types.time) = 1
    /\ Len(ret.types.cat) = 1

\* the number of values of the column that parse as a date
Parsed(col) == Cardinality({j \in 1..Len(col.vals) : col.vals[j].k = "date"})

\* C15: a textual (object) column is classified time if and only if at least
\* 80% of its values parse as a date; 4 of 5 is enough.
C15_EightyPercentIsTime ==
    ret.fn = "_infer_column_types" =>
        \A j \in 1..Len(call.df.cols) :
            (call.df.cols[j].dtype = "object" /\ call.df.n > 0) =>
                ( call.df.cols[j].name \in SeqSet(ret.types.time)
                  <=> 5 * Parsed(call.df.cols[j]) >= 4 * call.df.n )

(***************************************************************************)
(* compute_kpis_from_plan                                                  *)
(***************************************************************************)
KpiReturned == ret.fn = "compute_kpis_from_plan"

\* the pairs (dataset d, KPI n) of the call
KpiCases == (1..Len(call.datasets)) \X (1..Len(call.plan.kpis))

\* what the call returned for KPI n of dataset d
Computed(d, n) == ret.out.map[d].list[n]

\* the formula_hint of KPI n, trimmed; <<>> when there is none
HintText(n) ==
    IF call.plan.kpis[n].formula_hint = None THEN <<>>
    ELSE strip(call.plan.kpis[n].formula_hint[1])

\* the readings of h as aggregate "(" column ")", case-insensitive
Calls(h) ==
    { <<a, SubSeq(h, Len(a) + 2, Len(h) - 1)>> :
        a \in { b \in SeqSet(HintAggs) :
                  /\ Len(h) >= Len(b) + 3
                  /\ Lower(SubSeq(h, 1, Len(b))) = b
                  /\ h[Len(b) + 1] = "("
                  /\ h[Len(h)] = ")"
                  /\ ")" \notin SeqSet(SubSeq(h, Len(b) + 2, Len(h) - 1)) } }

IsCountRows(h) == Lower(h) = TXT_count_rows \o <<"(", ")">>

ColumnsNamed(df, c) == {j \in 1..Len(df.cols) : df.cols[j].name = c}

\* the numeric cells of column c of df, as positions
NumericCells(df, c) ==
    { <<j, r>> \in (1..Len(df.cols)) \X (1..df.n) :
        df.cols[j].name = c /\ df.cols[j].vals[r].k = "num" }

\* a hint that cannot be evaluated on df: outside the grammar, or naming an
\* absent column, or aggregating a column without a numeric value
HintFails(h, df) ==
    \/ Calls(h) = {} /\ ~IsCountRows(h)
    \/ \E c \in Calls(h) :
          \/ ColumnsNamed(df, HintColumn(c[2])) = {}
          \/ c[1] # AGG_count_distinct /\ NumericCells(df, HintColumn(c[2])) = {}

NOTE_heuristic == <<"h","e","u","r","i","s","t","i","c">>

\* C16: a KPI whose formula_hint is outside the grammar, or names a column
\* the dataset lacks, or aggregates (sum/avg/min/max/p95) a column without a
\* numeric-coercible value, raises nothing and is resolved by the heuristic
\* rules: its note does not start with "from formula_hint".
C16_FailedHintFallsToHeuristics ==
    KpiReturned =>
        /\ ret.out.ok
        /\ \A c \in KpiCases :
              ( /\ call.plan.kpis[c[2]].formula_hint # None
                /\ HintFails(HintText(c[2]), call.datasets[c[1]].df) )
              => /\ ~StartsWith(Computed(c[1], c[2]).note[1], NOTE_from_hint)
                 /\ \/ StartsWith(Computed(c[1], c[2]).note[1], NOTE_heuristic)
                    \/ Computed(c[1], c[2]).note[1] = NOTE_fallback

\* sum(region) on sales (text only), max(missing) on sales (absent) and
\* "sum amount" (no call) were all resolved
C16_Witness ==
    /\ KpiReturned
    /\ \E c \in KpiCases :
          /\ call.datasets[c[1]].name = "sales"
          /\ call.plan.kpis[c[2]] = K_text_column
          /\ Computed(c[1], c[2]).note = Some(NOTE_fallback)
    /\ \E c \in KpiCases :
          /\ call.plan.kpis[c[2]] \in {K_absent_column, K_no_call}
          /\ Computed(c[1], c[2]).note = Some(NOTE_fallback)

\* the sum of the numeric values of column c of df
RefSum(df, c) ==
    LET col == df.cols[CHOOSE j \in ColumnsNamed(df, c) : TRUE]
        acc[r \in 0..Len(col.vals)] ==
            IF r = 0 THEN 0
            ELSE acc[r - 1] + (IF col.vals[r].k = "num" THEN col.vals[r].v ELSE 0)
    IN  acc[Len(col.vals)]

\* the number of distinct non-missing values of column c of df
RefDistinct(df, c) ==
    LET col == df.cols[CHOOSE j \in ColumnsNamed(df, c) : TRUE]
    IN  Cardinality({v \in SeqSet(col.vals) : v.k # "na"})

CallText(agg, c) == agg \o <<"(">> \o c \o <<")">>

\* C17: a hint of the grammar evaluates to the reference aggregate: sum(c) to
\* the sum of the numeric values of c, count_distinct(c) to the number of
\* distinct non-missing values of c, count_rows() to the number of rows.
C17_HintIsReferenceAggregate ==
    KpiReturned =>
        \A c \in KpiCases :
            LET df == call.datasets[c[1]].df
                h  == HintText(c[2])
                kc == Computed(c[1], c[2])
            IN  /\ \A col \in SeqSet(ColumnNames(df)) :
                      /\ (h = CallText(AGG_sum, col) /\ NumericCells(df, col) # {})
                            => /\ kc.value.n = RefSum(df, col) * kc.value.d
                               /\ StartsWith(kc.note[1], NOTE_from_hint)
                      /\ h = CallText(AGG_count_distinct, col)
                            => /\ kc.value = IntVal(RefDistinct(df, col))
                               /\ StartsWith(kc.note[1], NOTE_from_hint)
                /\ IsCountRows(h)
                      => /\ kc.value = IntVal(df.n)
                         /\ kc.note = Some(NOTE_from_hint)

\* sum(amount) gave 60 for [10,20,30], count_distinct(user_id) gave 3 for
\* [1,1,2,3], in one call
C17_Witness ==
    /\ KpiReturned
    /\ \E c \in KpiCases :
          /\ call.datasets[c[1]].name = "sales"
          /\ call.plan.kpis[c[2]] = K_sales
          /\ Computed(c[1], c[2]).value = FloatVal(60, 1)
    /\ \E c \in KpiCases :
          /\ call.datasets[c[1]].name = "users"
          /\ call.plan.kpis[c[2]] = K_users
          /\ Computed(c[1], c[2]).value = IntVal(3)

\* no column of df has a name that holds a keyword of the id keyword set
NoIdColumn(df) ==
    \A j \in 1..Len(df.cols) : ~AnyIn(COLS_id_count, _norm(df.cols[j].name))

\* C18: "Total Revenue" with an empty description and no formula_hint, on a
\* dataset with a numeric column amount and no id-keyword column, is the
\* sum of amount.
C18_TotalRevenueIsSumOfAmount ==
    KpiReturned =>
        \A c \in KpiCases :
            LET df == call.datasets[c[1]].df
                kc == Computed(c[1], c[2])
            IN  ( /\ call.plan.kpis[c[2]] = K_total_revenue
                  /\ \E j \in ColumnsNamed(df, c_amount) : is_numeric_dtype(df.cols[j])
                  /\ NoIdColumn(df) )
                => kc.value.n = RefSum(df, c_amount) * kc.value.d

\* C19: for a plan of mappings and any datasets, the call raises nothing and
\* returns for each dataset, in order, one value per plan KPI, in plan
\* order (under the KPI's name, or the default of its rule when the name is
\* empty), and no value is missing.
C19_OneValuePerKpi ==
    KpiReturned =>
        /\ ret.out.ok
        /\ Len(ret.out.map) = Len(call.datasets)
        /\ \A d \in 1..Len(call.datasets) :
              /\ ret.out.map[d].name = call.datasets[d].name
              /\ Len(ret.out.map[d].list) = Len(call.plan.kpis)
              /\ \A n \in 1..Len(call.plan.kpis) :
                    /\ Computed(d, n).value.t \in {"int", "float"}
                    /\ Computed(d, n).value.d > 0
                    /\ IF strip(call.plan.kpis[n].name) # <<>>
                       THEN Computed(d, n).name = strip(call.plan.kpis[n].name)
                       ELSE Computed(d, n).name \in {TXT_count_rows, <<"r","o","w","s">>}

\* two KPIs on an empty dataset and on one without a matching column, one
\* of them resolved by the default rule
C19_Witness ==
    /\ KpiReturned
    /\ Len(call.datasets) = 2
    /\ Len(call.plan.kpis) = 2
    /\ call.datasets[1].df.n = 0
    /\ call.plan.kpis[1] = K_revenue
    /\ \A n \in 1..2 : Computed(1, n).note = Some(NOTE_fallback)

\* the message holds value v, formatted in as what
Mentions(msg, what, v) ==
    \E j \in 1..Len(msg) : msg[j].part = what /\ msg[j].value = v

\* the run ended on the gate's refusal of artifacts[pos]
GateRaised == pc = "raised" /\ result.type = "ValueError"

\* C20: when the gate rejects an artifact's SQL, the error the caller gets
\* names the artifact (its dataset_name) and holds text of the offending
\* SQL, and the statement was not executed.
C20_RejectionNamesArtifact ==
    GateRaised =>
        /\ Mentions(ui.error[1], "dataset_name", artifacts[pos].dataset_name)
        /\ \E n \in 1..Len(strip(artifacts[pos].sql)) :
              Mentions(ui.error[1], "sql", SubSeq(strip(artifacts[pos].sql), 1, n))
        /\ ~(sent.sent /\ sent.src = strip(artifacts[pos].sql))

(***************************************************************************)
(* The gate accepts read-only texts                                        *)
(***************************************************************************)
\* the word SELECT stands at position p of s, in any letter case
SelectAt(s, p) ==
    /\ p + Len(KW_SELECT) - 1 <= Len(s)
    /\ Lower(SubSeq(s, p, p + Len(KW_SELECT) - 1)) = Lower(KW_SELECT)
    /\ (p + Len(KW_SELECT) > Len(s) \/ ~IsWordChar(s[p + Len(KW_SELECT)]))

\* s starts with WITH, white space, a text closed by ")", then SELECT
CteThenSelect(s) ==
    /\ Len(s) > Len(KW_WITH)
    /\ Lower(SubSeq(s, 1, Len(KW_WITH))) = Lower(KW_WITH)
    /\ s[Len(KW_WITH) + 1] \in WsChars
    /\ \E k \in (Len(KW_WITH) + 3)..Len(s) :
          /\ s[k] = ")"
          /\ \E m \in (k + 1)..Len(s) :
                /\ SelectAt(s, m)
                /\ \A j \in (k + 1)..(m - 1) : s[j] \in WsChars

SelectShaped(s) == SelectAt(s, 1) \/ CteThenSelect(s)

\* white space and ";" trimmed together from both ends
TrimAll(s) == RStripSet(LStripSet(s, WsChars \cup {";"}), WsChars \cup {";"})

\* white space trimmed from both ends, then ";" from both ends of the rest
TrimInTurn(s) == RStripSet(LStripSet(strip(s), {";"}), {";"})

\* C21 as stated: a text that, once white space and statement terminators
\* are trimmed, starts with SELECT or with WITH ... ) SELECT in any letter
\* case, and holds no forbidden keyword as a whole word, is accepted:
\* is_select_only is true and enforce_select_only does not raise.
C21_SelectTextsAccepted ==
    (gout # "none" /\ SelectShaped(TrimAll(gsql)) /\ ~ContainsForbiddenWord(gsql))
        => (gout = "accept" /\ is_select_only(gsql))

\* C21, amended: the same for a text that starts so once white space is
\* trimmed from both ends and then ";" from both ends of what is left.
C21_SelectTextsAcceptedInTurn ==
    (gout # "none" /\ SelectShaped(TrimInTurn(gsql)) /\ ~ContainsForbiddenWord(gsql))
        => (gout = "accept" /\ is_select_only(gsql))

\* a WITH ... ) select text in mixed case, with something to trim, accepted
C21_Witness ==
    /\ gout = "accept"
    /\ CteThenSelect(TrimInTurn(gsql))
    /\ TrimInTurn(gsql) # gsql
    /\ ~SearchWordExact(gsql, KW_SELECT)

(***************************************************************************)
(* Interleaved cache_df calls                                              *)
(***************************************************************************)
BothPutsDone ==
    call.fn = "cache_df" /\ \A p \in 1..Len(call.puts) : call.puts[p].pc = "done"

\* the index rows and the file of put p are those of the put run alone
AsIfAlone(p) ==
    /\ RowsOf(index, call.puts[p].key)
          = <<Row(call.puts[p].key, ParquetPath(call.puts[p].key))>>
    /\ FileExists(ParquetPath(call.puts[p].key))
    /\ files[ParquetPath(call.puts[p].key)] = ParquetFile(call.puts[p].df)

\* C22: two cache_df calls interleaved step by step.  For different keys
\* each key's index row and file are as if its put had run alone.  For one
\* key the index ends with one row, a state one of the puts wrote, and the
\* file it names holds one of the two datasets in full.
C22_InterleavedPuts ==
    BothPutsDone =>
        IF call.puts[1].key # call.puts[2].key
        THEN Len(index) = 2 /\ AsIfAlone(1) /\ AsIfAlone(2)
        ELSE /\ Len(index) = 1
             /\ index[1] = Row(call.puts[1].key, ParquetPath(call.puts[1].key))
             /\ FileExists(index[1].parquet_path)
             /\ files[index[1].parquet_path]
                   \in {ParquetFile(call.puts[1].df), ParquetFile(call.puts[2].df)}

\* two puts of different datasets under one key are done, and the file
\* holds the dataset of the first: the second wrote its file before
C22_Witness ==
    /\ BothPutsDone
    /\ call.puts[1].key = call.puts[2].key
    /\ call.puts[1].df # call.puts[2].df
    /\ files[ParquetPath(call.puts[1].key)] = ParquetFile(call.puts[1].df)

(***************************************************************************)
(* The order of the heuristic rules                                        *)
(***************************************************************************)
\* the normalized name and description of KPI n of the call
KpiText(n) ==
    _norm(strip(call.plan.kpis[n].name) \o <<" ">> \o strip(call.plan.kpis[n].description))

\* KPI n reaches the heuristic rules on df: it has no hint, or one that fails
Heuristic(n, df) ==
    \/ call.plan.kpis[n].formula_hint = None
    \/ HintFails(HintText(n), df)

\* the number of id keywords the normalized name of column j holds, and
\* whether it is one of them
IdHits(df, j) ==
    Cardinality({w \in SeqSet(COLS_id_count) : Contains(_norm(df.cols[j].name), w)})

IdExact(df, j) == _norm(df.cols[j].name) \in SeqSet(COLS_id_count)

\* column j is a best identifier column of df: it holds an id keyword, and
\* every column that scores as much stands after it
BestIdColumn(df, j) ==
    /\ IdHits(df, j) > 0
    /\ \A o \in 1..Len(df.cols) :
          LET mine == ScoreKeyword * IdHits(df, j) + (IF IdExact(df, j) THEN ScoreExact ELSE 0)
              its  == ScoreKeyword * IdHits(df, o) + (IF IdExact(df, o) THEN ScoreExact ELSE 0)
          IN  its < mine \/ (its = mine /\ o >= j)

\* C23: the heuristic rules apply in the order count/total, active, money,
\* default, and the first that matches decides: a KPI whose text matches
\* the count/total rule is the distinct count of the best identifier
\* column, or the row count when there is none, also when the text matches
\* the money rule; it is never a sum.
C23_CountRuleComesFirst ==
    KpiReturned =>
        \A c \in KpiCases :
            LET df == call.datasets[c[1]].df
                kc == Computed(c[1], c[2])
            IN  (Heuristic(c[2], df) /\ AnyIn(WORDS_count, KpiText(c[2])))
                => /\ ~StartsWith(kc.note[1], NOTE_h_sum)
                   /\ IF \E j \in 1..Len(df.cols) : IdHits(df, j) > 0
                      THEN \E j \in 1..Len(df.cols) :
                              /\ BestIdColumn(df, j)
                              /\ kc.value = IntVal(RefDistinct(df, df.cols[j].name))
                              /\ kc.note = Some(NOTE_h_distinct \o df.cols[j].name)
                      ELSE /\ kc.value = IntVal(df.n)
                           /\ kc.note = Some(NOTE_h_rows)

\* "Total Revenue" matches the count/total rule and the money rule: it was
\* the row count on sales (no identifier column) and the distinct count of
\* user_id on users, in one call
C23_Witness ==
    /\ KpiReturned
    /\ \E c \in KpiCases :
          /\ call.plan.kpis[c[2]] = K_total_revenue
          /\ call.datasets[c[1]].name = "sales"
          /\ Computed(c[1], c[2]).note = Some(NOTE_h_rows)
    /\ \E c \in KpiCases :
          /\ call.plan.kpis[c[2]] = K_total_revenue
          /\ call.datasets[c[1]].name = "users"
          /\ Computed(c[1], c[2]).value = IntVal(3)

\* the text of note after the prefix pre
AfterPrefix(note, pre) == SubSeq(note, Len(pre) + 1, Len(note))

\* C24: the active rule searches the identifier column as the count/total
\* rule does: on every dataset the column it selects, or its finding none,
\* is what the count/total rule selects on that dataset.
C24_ActiveRuleSameColumn ==
    KpiReturned =>
        \A c \in KpiCases :
            LET df == call.datasets[c[1]].df
                kc == Computed(c[1], c[2])
            IN  /\ StartsWith(kc.note[1], NOTE_h_active_distinct)
                    => _pick_best_column(df, COLS_id_count, FALSE)
                          = Some(AfterPrefix(kc.note[1], NOTE_h_active_distinct))
                /\ kc.note = Some(NOTE_h_active_rows)
                    => _pick_best_column(df, COLS_id_count, FALSE) = None

\* the normalized name of column j of df holds a money column keyword
MoneyNamed(df, j) == AnyIn(COLS_money, _norm(df.cols[j].name))

\* C26: the money rule only returns the sum of a column whose normalized
\* name holds a money column keyword; on a dataset without such a column
\* the KPI falls through to the default row count.
C26_MoneyRuleSumsMoneyColumns ==
    KpiReturned =>
        \A c \in KpiCases :
            LET df == call.datasets[c[1]].df
                kc == Computed(c[1], c[2])
            IN  /\ StartsWith(kc.note[1], NOTE_h_sum)
                    => \E j \in 1..Len(df.cols) :
                          /\ MoneyNamed(df, j)
                          /\ kc.note = Some(NOTE_h_sum \o df.cols[j].name \o <<")">>)
                /\ ( /\ Heuristic(c[2], df)
                     /\ ~AnyIn(WORDS_count, KpiText(c[2]))
                     /\ ~AnyIn(WORDS_active, KpiText(c[2]))
                     /\ AnyIn(WORDS_money, KpiText(c[2]))
                     /\ \A j \in 1..Len(df.cols) : ~MoneyNamed(df, j) )
                    => /\ kc.note = Some(NOTE_fallback)
                       /\ kc.value = IntVal(df.n)

(***************************************************************************)
(* An aborted run and the store                                            *)
(***************************************************************************)
\* an exception left the loop while artifacts[pos] was processed
RunAborted == pc = "raised" /\ pos \in 1..Len(artifacts)

\* the abort came from the gate or the query: before the cache write
AbortedBeforeWrite ==
    RunAborted /\ result.type \in {"ValueError", "OperationalError", "ProgrammingError"}

\* artifacts[pos] is at its gate or at its query
BeforeCacheWrite == pc \in {"gate", "query"}

KeysBefore(n) == {CacheKeyOf(artifacts[j]) : j \in 1..(n - 1)}

\* C25: when a run aborts while processing artifact i (gate rejection, query
\* failure or cache failure) nothing persisted is rolled back: the file and
\* the index row of each artifact before i are still there, each such row
\* names an existing file, and artifact i has no file and no index row when
\* it failed before its cache write: the gate and the query write nothing,
\* so there is none under its key unless an earlier artifact has that key.
C25_AbortKeepsTheStore ==
    /\ [](RunAborted =>
            /\ \A k \in KeysBefore(pos) :
                  /\ RowsOf(index, k) = <<Row(k, ParquetPath(k))>>
                  /\ FileExists(ParquetPath(k))
            /\ ( AbortedBeforeWrite /\ CacheKeyOf(artifacts[pos]) \notin KeysBefore(pos) )
                  => /\ RowsOf(index, CacheKeyOf(artifacts[pos])) = <<>>
                     /\ ~FileExists(ParquetPath(CacheKeyOf(artifacts[pos]))))
    /\ [][BeforeCacheWrite => UNCHANGED storeVars]_vars

\* the second artifact was refused by the gate after the first was cached
C25_Witness ==
    /\ RunAborted
    /\ pos = 2
    /\ result.type = "ValueError"
    /\ CacheKeyOf(artifacts[2]) # CacheKeyOf(artifacts[1])
    /\ FileExists(ParquetPath(CacheKeyOf(artifacts[1])))
    /\ Len(index) = 1

(***************************************************************************)
(* The bundle and the store                                                *)
(***************************************************************************)
UniqueDatasetNames ==
    \A i, j \in 1..Len(artifacts) :
        artifacts[i].dataset_name = artifacts[j].dataset_name => i = j

\* C27: after a run that returns a bundle, for every DatasetSummary of it
\* the index row of its cache_key names its parquet_path, and loading that
\* cache_key gives the result of that artifact's query, for every artifact
\* list with unique dataset_names, also when two artifacts have the same
\* explicit cache_key or the same SQL text.
C27_SummariesLoadTheirData ==
    (pc = "returned" /\ UniqueDatasetNames) =>
        \A j \in 1..Len(result.datasets) :
            /\ RowsOf(index, result.datasets[j].cache_key)
                  = <<Row(result.datasets[j].cache_key, result.datasets[j].parquet_path)>>
            /\ load_cached_df(result.datasets[j].cache_key)
                  = Loaded("data", result.datasets[j].cache_key, FrameOf(artifacts[j]))

====
